---- MODULE Spec2Model ----
(***************************************************************************)
(* Model of the concierge chatbot: the conversation orchestrator           *)
(* (app/service.py, ChatService) and the KB store (app/kb.py, KBStore).    *)
(*                                                                         *)
(* Text is a sequence of one-character strings.  An element longer than    *)
(* one character is an opaque run of fixed template text.  Python's None   *)
(* is NoneSeq where a text is expected and "None" where an identifier is.  *)
(***************************************************************************)
EXTENDS Integers, Sequences, FiniteSets, TLC

VARIABLES
    sessions,            \* chat_sessions table: phone -> row (exists = FALSE: no row)
    messages,            \* chat_messages table, in id order
    handoffs,            \* handoff_requests table, in id order
    kb_entries,          \* kb_entries table, in id order
    property_registry,   \* KBStore._property_registry
    registry_rows,       \* KBStore._registry_rows
    registry_by_id,      \* KBStore._registry_by_id
    registry_by_name,    \* KBStore._registry_by_name
    registry_key_field,  \* KBStore._registry_key_field
    turns,               \* one handle_incoming_message activation per worker
    started,             \* number of turns begun so far
    load,                \* the last load_from_excel call and what it did
    kb_call              \* the last direct call of a KBStore read function, and its result

vars == <<sessions, messages, handoffs, kb_entries, property_registry, registry_rows,
          registry_by_id, registry_by_name, registry_key_field, turns, started, load,
          kb_call>>

dbVars == <<sessions, messages, handoffs>>
kbVars == <<kb_entries, property_registry, registry_rows, registry_by_id,
            registry_by_name, registry_key_field>>
chatVars == <<sessions, messages, handoffs, turns, started>>

(***************************************************************************)
(* Bounds.                                                                 *)
(***************************************************************************)
MaxTurns == 3          \* turns begun in one behaviour, one after the other
MaxOverlapTurns == 2   \* turns begun in one behaviour when they may overlap
MaxLoads == 3          \* load_from_excel calls in one behaviour
MaxReloadTurns == 1    \* turns begun in one behaviour while the KB is reloaded
MaxReloads == 1        \* load_from_excel calls begun while turns run

\* The request workers; each runs one turn at a time.
Workers == {1, 2}

(***************************************************************************)
(* Text helpers: str.strip, str.upper, str.lower, str.find.                *)
(***************************************************************************)
NoneSeq == <<"None">>
NoneId == "None"

LowerLetters == <<"a","b","c","d","e","f","g","h","i","j","k","l","m",
                  "n","o","p","q","r","s","t","u","v","w","x","y","z">>
UpperLetters == <<"A","B","C","D","E","F","G","H","I","J","K","L","M",
                  "N","O","P","Q","R","S","T","U","V","W","X","Y","Z">>

IsSpace(c) == c \in {" ", "\t", "\n"}

UpperChar(c) ==
    IF \E i \in 1..Len(LowerLetters) : LowerLetters[i] = c
    THEN UpperLetters[CHOOSE i \in 1..Len(LowerLetters) : LowerLetters[i] = c]
    ELSE c

LowerChar(c) ==
    IF \E i \in 1..Len(UpperLetters) : UpperLetters[i] = c
    THEN LowerLetters[CHOOSE i \in 1..Len(UpperLetters) : UpperLetters[i] = c]
    ELSE c

Upper(s) == [i \in 1..Len(s) |-> UpperChar(s[i])]
Lower(s) == [i \in 1..Len(s) |-> LowerChar(s[i])]

RECURSIVE LStrip(_)
LStrip(s) == IF s # <<>> /\ IsSpace(Head(s)) THEN LStrip(Tail(s)) ELSE s

RECURSIVE RStrip(_)
RStrip(s) ==
    IF s # <<>> /\ IsSpace(s[Len(s)]) THEN RStrip(SubSeq(s, 1, Len(s) - 1)) ELSE s

Strip(s) == RStrip(LStrip(s))

\* s.find(sub) != -1
Contains(s, sub) ==
    \E i \in 1..(Len(s) - Len(sub) + 1) : SubSeq(s, i, i + Len(sub) - 1) = sub

\* Python truthiness of an optional text: None and "" are falsy.
Truthy(s) == s # NoneSeq /\ s # <<>>

(***************************************************************************)
(* Python dicts, kept as sequences of <<key, value>> in insertion order.   *)
(***************************************************************************)
DictHas(d, k) == \E i \in 1..Len(d) : d[i][1] = k

DictGet(d, k, default) ==
    IF DictHas(d, k) THEN d[CHOOSE i \in 1..Len(d) : d[i][1] = k][2] ELSE default

\* d[k] = v: an existing key keeps its position, a new key goes last.
DictSet(d, k, v) ==
    IF DictHas(d, k)
    THEN [i \in 1..Len(d) |-> IF d[i][1] = k THEN <<k, v>> ELSE d[i]]
    ELSE Append(d, <<k, v>>)

DictKeys(d) == [i \in 1..Len(d) |-> d[i][1]]

(***************************************************************************)
(* Configuration (app/config.py).  kb_min_score is the fraction            *)
(* KbMinScoreNum / KbMinScoreDen = 0.80.                                   *)
(***************************************************************************)
KbTopK == 6
KbMinScoreNum == 4
KbMinScoreDen == 5
HistoryLimit == 16

(***************************************************************************)
(* kb.py: property scoping and cosine similarity.                          *)
(***************************************************************************)
WildcardUnits ==
    { <<"*">>, <<"a","l","l">>, <<"t","u","t","t","e">>, <<"t","u","t","t","i">>,
      <<"g","e","n","e","r","a","l","e">>, <<"g","e","n","e","r","a","l">> }

\* Mutant: every entry matches every property.
MatchesPropertyAnyUnit(unit_cell, property_hint) == TRUE

\* Mutant: without a hint every entry matches.
MatchesPropertyAnyWithoutHint(unit_cell, property_hint) ==
    IF ~Truthy(unit_cell) THEN TRUE
    ELSE IF Lower(Strip(unit_cell)) \in WildcardUnits THEN TRUE
    ELSE IF ~Truthy(property_hint) THEN TRUE
    ELSE Lower(Strip(unit_cell)) = Lower(Strip(property_hint))

MatchesProperty(unit_cell, property_hint) ==
    IF ~Truthy(unit_cell) THEN TRUE
    ELSE IF Lower(Strip(unit_cell)) \in WildcardUnits THEN TRUE
    ELSE IF ~Truthy(property_hint) THEN FALSE
    ELSE Lower(Strip(unit_cell)) = Lower(Strip(property_hint))

Min(a, b) == IF a < b THEN a ELSE b

RECURSIVE SumTo(_, _)
SumTo(f, n) == IF n = 0 THEN 0 ELSE f[n] + SumTo(f, n - 1)

\* A similarity dot / (sqrt(norm_a) * sqrt(norm_b)) is kept exactly, as the pair
\* [num |-> dot, den2 |-> norm_a * norm_b]; 0.0 is [num |-> 0, den2 |-> 1].
ZeroScore == [num |-> 0, den2 |-> 1]

\* Mutant: the empty and the zero-norm vector are not singled out.
CosineSimilarityUnguarded(a, b) ==
    LET n == Min(Len(a), Len(b))
        dot == SumTo([i \in 1..n |-> a[i] * b[i]], n)
        norm_a == SumTo([i \in 1..n |-> a[i] * a[i]], n)
        norm_b == SumTo([i \in 1..n |-> b[i] * b[i]], n)
    IN  [num |-> dot, den2 |-> norm_a * norm_b]

CosineSimilarity(a, b) ==
    IF a = <<>> \/ b = <<>> THEN ZeroScore
    ELSE LET n == Min(Len(a), Len(b))
             dot == SumTo([i \in 1..n |-> a[i] * b[i]], n)
             norm_a == SumTo([i \in 1..n |-> a[i] * a[i]], n)
             norm_b == SumTo([i \in 1..n |-> b[i] * b[i]], n)
         IN  IF norm_a * norm_b = 0 THEN ZeroScore
             ELSE [num |-> dot, den2 |-> norm_a * norm_b]

\* x -> x * |x| is increasing, so it orders the similarities without square roots.
SignedSquare(x) == IF x < 0 THEN 0 - x * x ELSE x * x

ScoreLess(s, t) == SignedSquare(s.num) * t.den2 < SignedSquare(t.num) * s.den2

\* Mutant: a best score equal to the minimum counts as below it.
BelowMinScoreLax(s) ==
    SignedSquare(s.num) * KbMinScoreDen * KbMinScoreDen
        <= SignedSquare(KbMinScoreNum) * s.den2

\* best_score < settings.kb_min_score
BelowMinScore(s) ==
    SignedSquare(s.num) * KbMinScoreDen * KbMinScoreDen
        < SignedSquare(KbMinScoreNum) * s.den2

(***************************************************************************)
(* kb.py: KBStore.retrieve.                                                *)
(***************************************************************************)
\* Mutant: a candidate is put before the candidates of equal score.
RECURSIVE InsertByScoreBeforeEqual(_, _)
InsertByScoreBeforeEqual(sorted, c) ==
    IF sorted = <<>> THEN <<c>>
    ELSE IF ~ScoreLess(c.score, Head(sorted).score) THEN <<c>> \o sorted
    ELSE <<Head(sorted)>> \o InsertByScoreBeforeEqual(Tail(sorted), c)

\* candidates.sort(key=score, reverse=True): stable, equal scores keep load order.
RECURSIVE InsertByScore(_, _)
InsertByScore(sorted, c) ==
    IF sorted = <<>> THEN <<c>>
    ELSE IF ScoreLess(Head(sorted).score, c.score) THEN <<c>> \o sorted
    ELSE <<Head(sorted)>> \o InsertByScore(Tail(sorted), c)

RECURSIVE SortByScore(_)
SortByScore(cands) ==
    IF cands = <<>> THEN <<>>
    ELSE InsertByScore(SortByScore(SubSeq(cands, 1, Len(cands) - 1)), cands[Len(cands)])

RECURSIVE Candidates(_, _, _)
Candidates(entries, query_vec, property_hint) ==
    IF entries = <<>> THEN <<>>
    ELSE LET e == Head(entries)
             rest == Candidates(Tail(entries), query_vec, property_hint)
         IN  IF MatchesProperty(e.unit, property_hint)
             THEN <<[score |-> CosineSimilarity(query_vec, e.embedding),
                     category |-> e.category, unit |-> e.unit, scope |-> e.scope,
                     description |-> e.description, answer |-> e.answer]>> \o rest
             ELSE rest

\* The list retrieve returns once the query vector is known (entries non-empty).
Retrieved(entries, query_vec, property_hint, top_k) ==
    LET sorted == SortByScore(Candidates(entries, query_vec, property_hint))
    IN  SubSeq(sorted, 1, Min(top_k, Len(sorted)))

(***************************************************************************)
(* kb.py: reading the workbook.  A workbook is [exists, sheets]; a sheet   *)
(* is [name, rows], rows[1] being the header row; a cell is a text or      *)
(* NoneSeq (an empty cell).                                                *)
(***************************************************************************)
StruttureName == <<"S","t","r","u","t","t","u","r","e">>
KnowledgeBaseName == <<"K","n","o","w","l","e","d","g","e"," ","b","a","s","e">>
NomeField == <<"N","o","m","e">>

PickSheetName(sheet_names, preferred, default) ==
    IF \E i \in 1..Len(sheet_names) :
           Lower(Strip(sheet_names[i])) = Lower(Strip(preferred))
    THEN sheet_names[CHOOSE i \in 1..Len(sheet_names) :
             /\ Lower(Strip(sheet_names[i])) = Lower(Strip(preferred))
             /\ \A j \in 1..(i - 1) :
                    Lower(Strip(sheet_names[j])) # Lower(Strip(preferred))]
    ELSE default

SheetNamed(wb, name) ==
    wb.sheets[CHOOSE i \in 1..Len(wb.sheets) :
        /\ wb.sheets[i].name = name
        /\ \A j \in 1..(i - 1) : wb.sheets[j].name # name]

\* str(cell.value).strip() if cell.value is not None else ""
CellText(c) == IF c = NoneSeq THEN <<>> ELSE Strip(c)

\* sheet[1]: the cells of the first row (one empty cell when the sheet is empty)
HeaderCells(sheet) == IF sheet.rows = <<>> THEN <<NoneSeq>> ELSE sheet.rows[1]

ReadHeaders(sheet) ==
    LET cells == HeaderCells(sheet) IN [i \in 1..Len(cells) |-> CellText(cells[i])]

\* sheet.iter_rows(min_row=2, values_only=True)
DataRows(sheet) ==
    IF Len(sheet.rows) < 2 THEN <<>> ELSE SubSeq(sheet.rows, 2, Len(sheet.rows))

\* not any(v is not None and str(v).strip() for v in row)
BlankRow(row) == \A i \in 1..Len(row) : CellText(row[i]) = <<>>

RemovedChars == {" ", "/", "\\", "-", "_"}

RECURSIVE DropChars(_, _)
DropChars(s, drop) ==
    IF s = <<>> THEN <<>>
    ELSE IF Head(s) \in drop THEN DropChars(Tail(s), drop)
    ELSE <<Head(s)>> \o DropChars(Tail(s), drop)

NormalizeHeader(value) == DropChars(Lower(Strip(value)), RemovedChars)

CanonicalHeaders ==
    << <<<<"c","a","t","e","g","o","r","i","a">>, "Categoria">>,
       <<<<"c","a","t","e","g","o","r","y">>, "Categoria">>,
       <<<<"a","p","p","a","r","t","a","m","e","n","t","o","s","t","a","n","z","a">>, "Appartamento /stanza">>,
       <<<<"a","p","p","a","r","t","a","m","e","n","t","o","s","t","a","n","z","e">>, "Appartamento /stanza">>,
       <<<<"a","p","p","a","r","t","a","m","e","n","t","o">>, "Appartamento /stanza">>,
       <<<<"s","t","a","n","z","a">>, "Appartamento /stanza">>,
       <<<<"c","a","m","e","r","a">>, "Appartamento /stanza">>,
       <<<<"s","t","r","u","t","t","u","r","a">>, "Appartamento /stanza">>,
       <<<<"p","r","o","p","e","r","t","y">>, "Appartamento /stanza">>,
       <<<<"a","m","b","i","t","o">>, "ambito">>,
       <<<<"s","c","o","p","e">>, "ambito">>,
       <<<<"d","e","s","c","r","i","z","i","o","n","e">>, "descrizione">>,
       <<<<"d","e","s","c","r","i","p","t","i","o","n">>, "descrizione">>,
       <<<<"r","i","s","p","o","s","t","a">>, "risposta">>,
       <<<<"a","n","s","w","e","r">>, "risposta">>,
       <<<<"r","e","s","p","o","n","s","e">>, "risposta">> >>

PositionalIndex ==
    << <<"Categoria", 0>>, <<"Appartamento /stanza", 1>>, <<"ambito", 2>>,
       <<"descrizione", 3>>, <<"risposta", 4>> >>

RECURSIVE HeaderIndexFrom(_, _, _)
HeaderIndexFrom(headers, i, idx) ==
    IF i > Len(headers) THEN idx
    ELSE LET norm == NormalizeHeader(headers[i])
             key == DictGet(CanonicalHeaders, norm, "")
         IN  IF DictHas(CanonicalHeaders, norm) /\ ~DictHas(idx, key)
             THEN HeaderIndexFrom(headers, i + 1, Append(idx, <<key, i - 1>>))
             ELSE HeaderIndexFrom(headers, i + 1, idx)

\* idx of _build_header_index: canonical key -> 0-based column
BuildHeaderIndex(headers) ==
    LET idx == HeaderIndexFrom(headers, 1, <<>>)
    IN  IF ~DictHas(idx, "risposta") /\ Len(headers) >= 5 THEN PositionalIndex ELSE idx

\* One row dict of _iter_kb_rows, keys in idx order.
RowDict(row, idx) ==
    [k \in 1..Len(idx) |->
        LET i == idx[k][2]
            val == IF i < Len(row) THEN row[i + 1] ELSE NoneSeq
            sval == IF val # NoneSeq THEN Strip(val) ELSE NoneSeq
        IN  <<idx[k][1], IF Truthy(sval) THEN sval ELSE NoneSeq>>]

\* Mutant: a row is kept whatever its answer cell holds.
RowHasAnswerAlways(out) == TRUE

\* out.get("risposta") and str(out["risposta"]).strip()
RowHasAnswer(out) ==
    /\ Truthy(DictGet(out, "risposta", NoneSeq))
    /\ Strip(DictGet(out, "risposta", NoneSeq)) # <<>>

RECURSIVE IterKbRowsFrom(_, _)
IterKbRowsFrom(rows, idx) ==
    IF rows = <<>> THEN <<>>
    ELSE LET out == RowDict(Head(rows), idx)
             rest == IterKbRowsFrom(Tail(rows), idx)
         IN  IF BlankRow(Head(rows)) THEN rest
             ELSE IF ~RowHasAnswer(out) THEN rest
             ELSE <<out>> \o rest

IterKbRows(sheet, idx) == IterKbRowsFrom(DataRows(sheet), idx)

RECURSIVE RegistryRecord(_, _, _, _)
RegistryRecord(headers, row, i, record) ==
    IF i > Len(headers) THEN record
    ELSE LET val == IF i <= Len(row) THEN row[i] ELSE NoneSeq
         IN  IF headers[i] = <<>> \/ val = NoneSeq \/ Strip(val) = <<>>
             THEN RegistryRecord(headers, row, i + 1, record)
             ELSE RegistryRecord(headers, row, i + 1,
                                 DictSet(record, headers[i], Strip(val)))

RECURSIVE RegistryRowsFrom(_, _)
RegistryRowsFrom(headers, rows) ==
    IF rows = <<>> THEN <<>>
    ELSE LET record == RegistryRecord(headers, Head(rows), 1, <<>>)
             rest == RegistryRowsFrom(headers, Tail(rows))
         IN  IF BlankRow(Head(rows)) \/ record = <<>> THEN rest
             ELSE <<record>> \o rest

ReadRegistryRows(sheet) == RegistryRowsFrom(ReadHeaders(sheet), DataRows(sheet))

(***************************************************************************)
(* kb.py: the property registry indexes.                                   *)
(***************************************************************************)
PropertyIdHeaders ==
    { <<"p","r","o","p","e","r","t","y","i","d">>,
      <<"i","d","s","t","r","u","t","t","u","r","a">>,
      <<"c","o","d","i","c","e","s","t","r","u","t","t","u","r","a">>,
      <<"i","d","p","r","o","p","e","r","t","y">> }

\* None is reported as NoneSeq.
DetectRegistryNameField(rows) ==
    IF rows = <<>> THEN NoneSeq
    ELSE LET keys == DictKeys(rows[1])
         IN  IF \E i \in 1..Len(keys) : keys[i] = NomeField THEN NomeField
             ELSE IF \E i \in 1..Len(keys) : Lower(Strip(keys[i])) = Lower(NomeField)
             THEN keys[CHOOSE i \in 1..Len(keys) :
                      /\ Lower(Strip(keys[i])) = Lower(NomeField)
                      /\ \A j \in 1..(i - 1) : Lower(Strip(keys[j])) # Lower(NomeField)]
             ELSE NoneSeq

DetectPropertyIdField(rows) ==
    LET keys == DictKeys(rows[1])
    IN  IF \E i \in 1..Len(keys) : NormalizeHeader(keys[i]) \in PropertyIdHeaders
        THEN keys[CHOOSE i \in 1..Len(keys) :
                 /\ NormalizeHeader(keys[i]) \in PropertyIdHeaders
                 /\ \A j \in 1..(i - 1) : NormalizeHeader(keys[j]) \notin PropertyIdHeaders]
        ELSE NoneSeq

RECURSIVE IndexRows(_, _, _, _)
IndexRows(rows, name_field, property_id_field, acc) ==
    IF rows = <<>> THEN acc
    ELSE LET row == Head(rows)
             by_field == DictGet(row, name_field, NoneSeq)
             name_val == IF Truthy(by_field) THEN by_field
                         ELSE DictGet(row, NomeField, NoneSeq)
             pid == IF property_id_field = NoneSeq THEN NoneSeq
                    ELSE DictGet(row, property_id_field, NoneSeq)
             named == IF Truthy(name_val)
                      THEN [acc EXCEPT !.by_name = DictSet(@, name_val, row),
                                       !.property_registry = DictSet(@, name_val, row)]
                      ELSE acc
             both == IF Truthy(pid)
                     THEN [named EXCEPT !.by_id = DictSet(@, pid, row)]
                     ELSE named
         IN  IndexRows(Tail(rows), name_field, property_id_field, both)

\* _build_registry_indexes: the three indexes and the key field, from the rows
\* read and the key field left by the previous load.
BuildRegistryIndexes(rows, old_key_field) ==
    LET empty == [by_id |-> <<>>, by_name |-> <<>>, property_registry |-> <<>>,
                  key_field |-> old_key_field]
    IN  IF rows = <<>> THEN empty
        ELSE LET detected == DetectRegistryNameField(rows)
                 name_field == IF detected # NoneSeq THEN detected ELSE NomeField
             IN  IndexRows(rows, name_field, DetectPropertyIdField(rows),
                           [empty EXCEPT !.key_field = name_field])

\* Mutant: the name index is consulted before the id index.
ResolvePropertyNameByNameFirst(store, property_id) ==
    IF ~Truthy(property_id) \/ Strip(property_id) = <<>>
    THEN [name |-> NoneSeq, record |-> NoneSeq]
    ELSE LET pid == Strip(property_id)
         IN  IF DictHas(store.registry_by_name, pid)
             THEN [name |-> pid, record |-> DictGet(store.registry_by_name, pid, NoneSeq)]
             ELSE IF DictHas(store.registry_by_id, pid)
             THEN [name |-> pid, record |-> DictGet(store.registry_by_id, pid, NoneSeq)]
             ELSE [name |-> pid, record |-> NoneSeq]

\* resolve_property_name: the pair (name, record); None is NoneSeq.
ResolvePropertyName(store, property_id) ==
    IF ~Truthy(property_id) THEN [name |-> NoneSeq, record |-> NoneSeq]
    ELSE LET pid == Strip(property_id)
         IN  IF pid = <<>> THEN [name |-> NoneSeq, record |-> NoneSeq]
             ELSE IF DictHas(store.registry_by_id, pid)
             THEN LET record == DictGet(store.registry_by_id, pid, NoneSeq)
                      field == IF Truthy(store.registry_key_field)
                               THEN store.registry_key_field ELSE NomeField
                      name == DictGet(record, field, NoneSeq)
                  IN  [name |-> IF Truthy(name) THEN name ELSE pid, record |-> record]
             ELSE IF DictHas(store.registry_by_name, pid)
             THEN [name |-> pid, record |-> DictGet(store.registry_by_name, pid, NoneSeq)]
             ELSE [name |-> pid, record |-> DictGet(store.registry_by_name, pid, NoneSeq)]

(***************************************************************************)
(* kb.py: _hash_row and _sync_rows.                                        *)
(***************************************************************************)
\* The row keys in the order json.dumps(sort_keys=True) writes them.
SortedKeys == <<"Appartamento /stanza", "Categoria", "ambito", "descrizione", "risposta">>

RECURSIVE SortedItems(_, _)
SortedItems(row, keys) ==
    IF keys = <<>> THEN <<>>
    ELSE IF DictHas(row, Head(keys))
         THEN <<<<Head(keys), DictGet(row, Head(keys), NoneSeq)>>>>
                  \o SortedItems(row, Tail(keys))
         ELSE SortedItems(row, Tail(keys))

\* Mutant: the JSON text is written in the insertion order of the keys.
HashRowUnsorted(row) == row

\* The digest of the canonical JSON text, identified with that text (the sorted
\* key/value list): SHA-256 is taken to be collision-free.
HashRow(row) == SortedItems(row, SortedKeys)

RowHashes(rows) == {HashRow(rows[i]) : i \in 1..Len(rows)}
EntryHashes(entries) == {entries[i].row_hash : i \in 1..Len(entries)}

\* Mutant: stale entries are never removed.
KeepEntriesAll(entries, hashes) == entries

\* existing minus stale: the entries whose row_hash is among the desired hashes
RECURSIVE KeepEntries(_, _)
KeepEntries(entries, hashes) ==
    IF entries = <<>> THEN <<>>
    ELSE IF Head(entries).row_hash \in hashes
         THEN <<Head(entries)>> \o KeepEntries(Tail(entries), hashes)
         ELSE KeepEntries(Tail(entries), hashes)

RECURSIVE RowsNotIn(_, _)
RowsNotIn(rows, hashes) ==
    IF rows = <<>> THEN <<>>
    ELSE IF HashRow(Head(rows)) \notin hashes
         THEN <<Head(rows)>> \o RowsNotIn(Tail(rows), hashes)
         ELSE RowsNotIn(Tail(rows), hashes)

\* Mutant: every desired row is embedded and inserted again.
MissingRowsAll(existing, rows) == rows

\* missing = [r for r in rows if _hash_row(r) not in existing_hashes]
MissingRows(existing, rows) == RowsNotIn(rows, EntryHashes(existing))

NewEntry(row, emb) ==
    [row_hash |-> HashRow(row),
     category |-> DictGet(row, "Categoria", NoneSeq),
     unit |-> DictGet(row, "Appartamento /stanza", NoneSeq),
     scope |-> DictGet(row, "ambito", NoneSeq),
     description |-> DictGet(row, "descrizione", NoneSeq),
     answer |-> IF Truthy(DictGet(row, "risposta", NoneSeq))
                THEN DictGet(row, "risposta", NoneSeq) ELSE <<>>,
     embedding |-> emb]

\* _row_to_embedding_text: the "key: value" lines of the truthy fields, in the
\* fixed key order, kept as the list of <<key, value>>.
EmbeddingKeys == <<"Categoria", "Appartamento /stanza", "ambito", "descrizione", "risposta">>

RECURSIVE EmbeddingParts(_, _)
EmbeddingParts(row, keys) ==
    IF keys = <<>> THEN <<>>
    ELSE IF Truthy(DictGet(row, Head(keys), NoneSeq))
         THEN <<<<Head(keys), DictGet(row, Head(keys), NoneSeq)>>>>
                  \o EmbeddingParts(row, Tail(keys))
         ELSE EmbeddingParts(row, Tail(keys))

RowToEmbeddingText(row) == EmbeddingParts(row, EmbeddingKeys)

\* UniqueConstraint("row_hash") at commit
UniqueHashes(entries) ==
    \A i, j \in 1..Len(entries) : entries[i].row_hash = entries[j].row_hash => i = j

\* One _sync_rows call on the table `existing`.  embed_ok and embeddings are what
\* embed_texts does when it is called: it raises, or returns one vector per text.
\* A raise inside the transaction leaves the table as it was.
SyncRows(existing, rows, embed_ok, embeddings) ==
    LET desired == RowHashes(rows)
        kept == KeepEntries(existing, desired)
        missing == MissingRows(existing, rows)
        added == [i \in 1..Len(missing) |-> NewEntry(missing[i], embeddings[i])]
        texts == [i \in 1..Len(missing) |-> RowToEmbeddingText(missing[i])]
        unchanged == [raised |-> TRUE, entries |-> existing, deleted |-> 0,
                      inserted |-> 0, embed_calls |-> 0, texts |-> <<>>,
                      vectors |-> <<>>]
    IN  IF missing # <<>> /\ ~embed_ok
        THEN [unchanged EXCEPT !.embed_calls = 1, !.texts = texts]
        ELSE IF ~UniqueHashes(kept \o added)
        THEN [unchanged EXCEPT !.embed_calls = IF missing = <<>> THEN 0 ELSE 1,
                               !.texts = texts, !.vectors = embeddings]
        ELSE [raised |-> FALSE, entries |-> kept \o added,
              deleted |-> Len(existing) - Len(kept), inserted |-> Len(added),
              embed_calls |-> IF missing = <<>> THEN 0 ELSE 1,
              texts |-> texts, vectors |-> embeddings]

(***************************************************************************)
(* The workbooks offered to load_from_excel.                               *)
(***************************************************************************)
KbHeaderRow ==
    << <<"C","a","t","e","g","o","r","i","a">>, <<"A","p","p","a","r","t","a","m","e","n","t","o"," ","/","s","t","a","n","z","a">>, <<"a","m","b","i","t","o">>, <<"d","e","s","c","r","i","z","i","o","n","e">>, <<"r","i","s","p","o","s","t","a">> >>

\* Same columns under synonyms, in another order.
KbHeaderRowSynonyms ==
    << <<"A","n","s","w","e","r">>, <<"P","r","o","p","e","r","t","y">>, <<"S","c","o","p","e">> >>

\* No recognisable answer column: the positional order applies.
KbHeaderRowUnknown ==
    << <<"a">>, <<"b">>, <<"c">>, <<"d">>, <<"e">> >>

RegistryHeaderRow == << <<"N","o","m","e">>, <<"p","r","o","p","e","r","t","y","_","i","d">> >>

PropertyP1 == <<"P","1">>
PropertyP2 == <<"P","2">>
PropertyP9 == <<"P","9">>

RegistrySheetA ==
    [name |-> StruttureName,
     rows |-> << RegistryHeaderRow,
                 << <<"B","l","u">>, PropertyP1 >>,
                 << PropertyP2, NoneSeq >> >>]

RowP1 == << <<"w","i","f","i">>, PropertyP1, NoneSeq, NoneSeq, <<"x">> >>
RowP1Lower == << NoneSeq, <<" ","p","1">>, NoneSeq, <<"d">>, <<"y"," ">> >>
RowP9 == << NoneSeq, PropertyP9, NoneSeq, NoneSeq, <<"z">> >>
RowP1Edited == << <<"w","i","f","i">>, PropertyP1, NoneSeq, NoneSeq, <<"x","x">> >>
RowBlankAnswer == << <<"w","i","f","i">>, PropertyP1, NoneSeq, NoneSeq, <<" ">> >>
RowNoAnswer == << <<"w","i","f","i">>, PropertyP1, NoneSeq, NoneSeq, NoneSeq >>
RowBlank == << NoneSeq, <<" ">>, NoneSeq, NoneSeq, NoneSeq >>
RowAll == << <<"s","p","a">>, <<"T","u","t","t","e">>, NoneSeq, NoneSeq, <<"a">> >>
RowP2 == << NoneSeq, PropertyP2, NoneSeq, NoneSeq, <<"c">> >>
RowNoUnit == << NoneSeq, NoneSeq, NoneSeq, NoneSeq, <<"b">> >>

Workbook(kb_rows) ==
    [exists |-> TRUE,
     sheets |-> << RegistrySheetA, [name |-> KnowledgeBaseName, rows |-> kb_rows] >>]

WbMissing == [exists |-> FALSE, sheets |-> <<>>]
WbNoSheets == [exists |-> TRUE, sheets |-> <<>>]
WbA == Workbook(<<KbHeaderRow, RowP1, RowP1Lower, RowP9>>)
WbEdited == Workbook(<<KbHeaderRow, RowP1Edited, RowBlank, RowP1Lower, RowBlankAnswer>>)
WbNoValidRows == Workbook(<<KbHeaderRow, RowBlankAnswer, RowNoAnswer, RowBlank>>)
WbDuplicateRows == Workbook(<<KbHeaderRow, RowP1, RowP9, RowP1>>)
WbPositional == Workbook(<<KbHeaderRowUnknown, RowP1>>)
WbShared == Workbook(<<KbHeaderRow, RowAll, RowP2, RowNoUnit>>)
WbSynonyms ==
    [exists |-> TRUE,
     sheets |-> << [name |-> <<"k","b">>,
                    rows |-> << KbHeaderRowSynonyms,
                                << <<"x">>, PropertyP1, NoneSeq >> >>] >>]

\* The paths load_from_excel is called with, and the file lying at each.
Paths ==
    {"missing.xlsx", "nosheets.xlsx", "a.xlsx", "edited.xlsx", "novalid.xlsx",
     "duplicate.xlsx", "positional.xlsx", "synonyms.xlsx", "shared.xlsx"}

FileAt(path) ==
    CASE path = "missing.xlsx" -> WbMissing
      [] path = "nosheets.xlsx" -> WbNoSheets
      [] path = "a.xlsx" -> WbA
      [] path = "edited.xlsx" -> WbEdited
      [] path = "novalid.xlsx" -> WbNoValidRows
      [] path = "duplicate.xlsx" -> WbDuplicateRows
      [] path = "positional.xlsx" -> WbPositional
      [] path = "synonyms.xlsx" -> WbSynonyms
      [] path = "shared.xlsx" -> WbShared

(***************************************************************************)
(* kb.py: KBStore.load_from_excel, as a function of the store, the         *)
(* path it is called with and the embedding provider's behaviour.          *)
(***************************************************************************)
EmptyStore ==
    [kb_entries |-> <<>>, property_registry |-> <<>>, registry_rows |-> <<>>,
     registry_by_id |-> <<>>, registry_by_name |-> <<>>, registry_key_field |-> NoneSeq]

\* The workbook is read: the file exists and has a sheet.
Readable(wb) == wb.exists /\ wb.sheets # <<>>

SheetNames(wb) == [i \in 1..Len(wb.sheets) |-> wb.sheets[i].name]

RegistrySheet(wb) ==
    SheetNamed(wb, PickSheetName(SheetNames(wb), StruttureName, SheetNames(wb)[1]))

KbSheet(wb) ==
    SheetNamed(wb, PickSheetName(SheetNames(wb), KnowledgeBaseName,
                   IF Len(wb.sheets) > 1 THEN SheetNames(wb)[2] ELSE SheetNames(wb)[1]))

\* rows = list(self._iter_kb_rows(kb_sheet, idx=idx)): the valid rows
ParseKbRows(wb) ==
    IF ~Readable(wb) THEN <<>>
    ELSE IterKbRows(KbSheet(wb), BuildHeaderIndex(ReadHeaders(KbSheet(wb))))

\* self._read_registry_rows(registry_sheet)
ParseRegistryRows(wb) ==
    IF ~Readable(wb) THEN <<>> ELSE ReadRegistryRows(RegistrySheet(wb))

\* The two sheets of each file as read, computed once per file.
KbRowsAt == [path \in Paths |-> ParseKbRows(FileAt(path))]
RegistryRowsAt == [path \in Paths |-> ParseRegistryRows(FileAt(path))]

ValidRows(excel_path) == KbRowsAt[excel_path]

\* The key fields a store can hold, and self._build_registry_indexes() for each
\* file and each key field left by the load before, computed once.
KeyFields ==
    {NoneSeq, NomeField}
        \cup {DetectRegistryNameField(RegistryRowsAt[path]) : path \in Paths}

RegistryIndexesAt ==
    [path \in Paths, old_key_field \in KeyFields |->
        BuildRegistryIndexes(RegistryRowsAt[path], old_key_field)]

\* if rows: self._sync_rows(rows)
ShouldSync(rows) == rows # <<>>

\* Mutant: a file that cannot be read empties the store.
UnreadClears(store) ==
    [store |-> [kb_entries |-> <<>>, property_registry |-> <<>>, registry_rows |-> <<>>,
                registry_by_id |-> <<>>, registry_by_name |-> <<>>,
                registry_key_field |-> store.registry_key_field],
     raised |-> FALSE, read |-> FALSE, rows |-> <<>>,
     deleted |-> 0, inserted |-> 0, embed_calls |-> 0, texts |-> <<>>, vectors |-> <<>>]

\* load_from_excel returns before it reads anything: `return` at the missing
\* path and at the workbook without sheets.
Unread(store) ==
    [store |-> store, raised |-> FALSE, read |-> FALSE, rows |-> <<>>,
     deleted |-> 0, inserted |-> 0, embed_calls |-> 0, texts |-> <<>>, vectors |-> <<>>]

\* The store after the call, and what the call did.
LoadFromExcel(store, excel_path, embed_ok, embeddings) ==
    LET noop == Unread(store)
    IN  IF ~FileAt(excel_path).exists THEN noop
        ELSE IF FileAt(excel_path).sheets = <<>> THEN noop
        ELSE LET rows == ValidRows(excel_path)
                 reg_rows == RegistryRowsAt[excel_path]
                 ix == RegistryIndexesAt[excel_path, store.registry_key_field]
                 indexed == [store EXCEPT !.registry_rows = reg_rows,
                                          !.registry_by_id = ix.by_id,
                                          !.registry_by_name = ix.by_name,
                                          !.property_registry = ix.property_registry,
                                          !.registry_key_field = ix.key_field]
                 sync == SyncRows(store.kb_entries, rows, embed_ok, embeddings)
             IN  IF ~ShouldSync(rows)
                 THEN [noop EXCEPT !.store = indexed, !.read = TRUE]
                 ELSE [store |-> [indexed EXCEPT !.kb_entries = sync.entries],
                       raised |-> sync.raised, read |-> TRUE, rows |-> rows,
                       deleted |-> sync.deleted, inserted |-> sync.inserted,
                       embed_calls |-> sync.embed_calls, texts |-> sync.texts,
                       vectors |-> sync.vectors]

\* The rows a load of the file would have to embed, given the table.
RowsToEmbed(entries, excel_path) ==
    IF ShouldSync(ValidRows(excel_path))
    THEN MissingRows(entries, ValidRows(excel_path)) ELSE <<>>

\* What the embedding provider may return for a stored row or a query.
StoreVectors == {<<4, 3>>, <<3, 4>>}

(***************************************************************************)
(* The KB store as one value, and the load_from_excel step.                *)
(***************************************************************************)
\* No direct call of retrieve or _matches_property has been made.
NoCall ==
    [op |-> "none", unit_cell |-> NoneSeq, property_hint |-> NoneSeq, matches |-> FALSE,
     top_k |-> 0, query_vec |-> <<>>, entries |-> <<>>, raised |-> FALSE,
     embed_calls |-> 0, scores |-> <<>>, result |-> <<>>,
     row |-> NoneSeq, hash |-> <<>>, prev_row |-> NoneSeq, prev_hash |-> <<>>,
     property_id |-> NoneSeq, name |-> NoneSeq, record |-> NoneSeq]

Store ==
    [kb_entries |-> kb_entries, property_registry |-> property_registry,
     registry_rows |-> registry_rows, registry_by_id |-> registry_by_id,
     registry_by_name |-> registry_by_name, registry_key_field |-> registry_key_field]

SetStore(s) ==
    /\ kb_entries' = s.kb_entries
    /\ property_registry' = s.property_registry
    /\ registry_rows' = s.registry_rows
    /\ registry_by_id' = s.registry_by_id
    /\ registry_by_name' = s.registry_by_name
    /\ registry_key_field' = s.registry_key_field

NoLoad ==
    [n |-> 0, pc |-> "idle", history |-> <<>>, path |-> "", raised |-> FALSE, read |-> FALSE, rows |-> <<>>,
     deleted |-> 0, inserted |-> 0, embed_calls |-> 0, texts |-> <<>>,
     vectors |-> <<>>, prev_path |-> "", prev_raised |-> FALSE, before |-> EmptyStore]

\* One call of load_from_excel.
Load(excel_path) ==
    /\ load.n < MaxLoads
    /\ \E embed_ok \in BOOLEAN :
       \E embeddings \in [1..Len(RowsToEmbed(kb_entries, excel_path)) -> StoreVectors] :
          /\ embed_ok \/ RowsToEmbed(kb_entries, excel_path) # <<>>
          /\ LET r == LoadFromExcel(Store, excel_path, embed_ok, embeddings)
             IN  /\ SetStore(r.store)
                 /\ load' = [n |-> load.n + 1, pc |-> "idle", history |-> load.history,
                             path |-> excel_path, raised |-> r.raised,
                             read |-> r.read, rows |-> r.rows, deleted |-> r.deleted,
                             inserted |-> r.inserted, embed_calls |-> r.embed_calls,
                             texts |-> r.texts, vectors |-> r.vectors,
                             prev_path |-> load.path, prev_raised |-> load.raised,
                             before |-> Store]
    /\ UNCHANGED <<chatVars, kb_call>>

(***************************************************************************)
(* kb.py: retrieve and _matches_property called on their own.  The value 0 *)
(* of top_k stands for None as well: both select the configured default.   *)
(***************************************************************************)
\* top_k = top_k or settings.kb_top_k
EffectiveTopK(top_k) == IF top_k = 0 THEN KbTopK ELSE top_k

\* Mutant: the query is embedded before the table is looked at.
QueryEmbedCallsAlways(entries) == 1

\* embed_texts([query]) is reached only past `if not entries: return []`.
QueryEmbedCalls(entries) == IF entries = <<>> THEN 0 ELSE 1

\* One retrieve call on the table `entries`; embed_ok and query_vec are what
\* embed_texts does when it is called.
RetrieveCall(entries, property_hint, top_k, embed_ok, query_vec) ==
    LET call == [NoCall EXCEPT !.op = "retrieve", !.property_hint = property_hint,
                               !.top_k = top_k, !.entries = entries,
                               !.embed_calls = QueryEmbedCalls(entries)]
    IN  IF entries = <<>> THEN call
        ELSE IF ~embed_ok THEN [call EXCEPT !.raised = TRUE]
        ELSE [call EXCEPT !.query_vec = query_vec,
                          !.result = Retrieved(entries, query_vec, property_hint,
                                               EffectiveTopK(top_k))]

\* The arguments the two functions are called with.
UnitTokens ==
    { NoneSeq, <<>>, <<" ">>, <<"*">>, <<" ","A","l","l"," ">>, <<"T","U","T","T","I">>,
      <<"t","u","t","t","e">>, <<"G","e","n","e","r","a","l","e">>,
      <<"g","e","n","e","r","a","l">>, <<"a","l","l","e">>, PropertyP1,
      <<" ","p","1","\t">>, PropertyP2 }

PropertyHints ==
    { NoneSeq, <<>>, <<" ">>, <<"*">>, <<"a","l","l">>, PropertyP1, <<"p","1"," ">>,
      PropertyP2 }

RetrieveHints == { NoneSeq, PropertyP1, <<"p","2"," ">> }
TopKs == {0, 1, 2}
ProbeVectors == {<<4, 3>>, <<3, 4>>, <<0, 0>>, <<>>}
ProbeQueryVectors == {<<1, 0>>, <<0, 1>>, <<0, 0>>, <<>>}
ProbePaths == {"missing.xlsx", "positional.xlsx", "shared.xlsx"}

\* retrieve(query, property_hint=..., top_k=...)
Retrieve(property_hint, top_k) ==
    /\ \E embed_ok \in BOOLEAN, query_vec \in ProbeQueryVectors :
          kb_call' = RetrieveCall(kb_entries, property_hint, top_k, embed_ok, query_vec)
    /\ UNCHANGED <<kbVars, chatVars, load>>

\* KBStore._matches_property(unit_cell, property_hint)
MatchProperty(unit_cell, property_hint) ==
    /\ kb_call' = [NoCall EXCEPT !.op = "_matches_property", !.unit_cell = unit_cell,
                                 !.property_hint = property_hint,
                                 !.matches = MatchesProperty(unit_cell, property_hint)]
    /\ UNCHANGED <<kbVars, chatVars, load>>

(***************************************************************************)
(* load_from_excel step by step, as a thread running beside the request    *)
(* workers sees it: the registry fields are assigned one statement after   *)
(* the other, then _sync_rows runs its transaction.                        *)
(***************************************************************************)
\* Lines 44-68 and the first three statements of _build_registry_indexes: the
\* file is read, _registry_rows is assigned and the three indexes are reset.
LoadRead(excel_path) ==
    /\ load.pc = "idle"
    /\ load.n < MaxReloads
    /\ IF ~FileAt(excel_path).exists \/ FileAt(excel_path).sheets = <<>>
       THEN /\ UNCHANGED kbVars
            /\ load' = [NoLoad EXCEPT !.n = load.n + 1, !.path = excel_path,
                                      !.prev_path = load.path,
                                      !.prev_raised = load.raised, !.before = Store,
                                      !.history = Append(load.history, Store)]
       ELSE /\ registry_rows' = RegistryRowsAt[excel_path]
            /\ registry_by_id' = <<>>
            /\ registry_by_name' = <<>>
            /\ property_registry' = <<>>
            /\ UNCHANGED <<kb_entries, registry_key_field>>
            /\ load' = [NoLoad EXCEPT !.n = load.n + 1, !.pc = "index",
                                      !.path = excel_path, !.read = TRUE,
                                      !.prev_path = load.path,
                                      !.prev_raised = load.raised, !.before = Store,
                                      !.history = load.history]
    /\ UNCHANGED <<chatVars, kb_call>>

\* The rest of _build_registry_indexes: the key field and the indexes are
\* filled from the rows; then `if rows:` decides whether _sync_rows runs.
LoadIndex ==
    /\ load.pc = "index"
    /\ LET ix == RegistryIndexesAt[load.path, registry_key_field]
       IN  /\ registry_by_id' = ix.by_id
           /\ registry_by_name' = ix.by_name
           /\ property_registry' = ix.property_registry
           /\ registry_key_field' = ix.key_field
           /\ load' = IF ShouldSync(ValidRows(load.path))
                      THEN [load EXCEPT !.pc = "sync", !.rows = ValidRows(load.path)]
                      ELSE [load EXCEPT !.pc = "idle",
                               !.history = Append(@,
                                   [Store EXCEPT !.registry_by_id = ix.by_id,
                                                 !.registry_by_name = ix.by_name,
                                                 !.property_registry = ix.property_registry,
                                                 !.registry_key_field = ix.key_field])]
    /\ UNCHANGED <<kb_entries, registry_rows, chatVars, kb_call>>

\* _sync_rows: the transaction commits, or it raises and is rolled back.
LoadSync ==
    /\ load.pc = "sync"
    /\ \E embed_ok \in BOOLEAN :
       \E embeddings \in [1..Len(MissingRows(kb_entries, load.rows)) -> StoreVectors] :
          /\ embed_ok \/ MissingRows(kb_entries, load.rows) # <<>>
          /\ LET sync == SyncRows(kb_entries, load.rows, embed_ok, embeddings)
             IN  /\ kb_entries' = sync.entries
                 /\ load' = [load EXCEPT !.pc = "idle", !.raised = sync.raised,
                                         !.deleted = sync.deleted,
                                         !.inserted = sync.inserted,
                                         !.embed_calls = sync.embed_calls,
                                         !.texts = sync.texts, !.vectors = sync.vectors,
                                         !.history = Append(@,
                                             [Store EXCEPT !.kb_entries = sync.entries])]
    /\ UNCHANGED <<property_registry, registry_rows, registry_by_id, registry_by_name,
                   registry_key_field, chatVars, kb_call>>

(***************************************************************************)
(* service.py: constants and pure helpers of ChatService.                  *)
(***************************************************************************)
Phones == {"p1", "p2"}
UserTexts == { <<"h","i">> }

\* What the Booking Resolver holds for each phone (data/mock_ciaobooking.json).
BookingOf(phone) ==
    IF phone = "p1"
    THEN [found |-> TRUE, booking_id |-> "B1", property_id |-> PropertyP1,
          guest_last_name |-> <<"R","o","s","s","i">>, guest_language |-> NoneSeq]
    ELSE [found |-> TRUE, booking_id |-> "B2", property_id |-> PropertyP2,
          guest_last_name |-> NoneSeq, guest_language |-> NoneSeq]

\* The booking of the second phone after the guest booked again: the resolver
\* answers with either one while the turns of the phone run.
LaterBooking ==
    [found |-> TRUE, booking_id |-> "B4", property_id |-> PropertyP2,
     guest_last_name |-> <<"V","e","r","d","i">>, guest_language |-> NoneSeq]

BookingsOf(phone) ==
    IF phone = "p2" THEN {BookingOf(phone), LaterBooking} ELSE {BookingOf(phone)}

\* get_booking_by_phone returned None
NoBooking ==
    [found |-> FALSE, booking_id |-> NoneId, property_id |-> NoneSeq,
     guest_last_name |-> NoneSeq, guest_language |-> NoneSeq]

SentinelCore == <<"H","A","N","D","O","F","F","_","N","I","C","C","O","L","O">>
Sentinel == <<"[", "[">> \o SentinelCore \o <<"]", "]">>

\* The fixed wording of the acknowledgement is kept as opaque runs of text; it
\* holds no sentinel (it names "Niccolo" with a grave accent on the last letter).
HandoffMessage(last_name) ==
    IF Truthy(last_name)
    THEN <<"Grazie, Sig./Sig.ra/Mx. ">> \o last_name
             \o <<". ", "Per offrirLe una risposta precisa ... al piu presto.">>
    ELSE <<"Grazie per il messaggio. ",
           "Per offrirLe una risposta precisa ... al piu presto.">>

\* Mutant: only the exact, upper-case sentinel is recognised.
IsModelHandoffExact(assistant) == assistant = Sentinel

\* assistant == "[[HANDOFF_NICCOLO]]" or
\* assistant.strip().upper().find("HANDOFF_NICCOLO") != -1
IsModelHandoff(assistant) ==
    \/ assistant = Sentinel
    \/ Contains(Upper(Strip(assistant)), SentinelCore)

\* not retrieved or best_score < settings.kb_min_score
KbInsufficient(retrieved, best_score) == retrieved = <<>> \/ BelowMinScore(best_score)

BestScore(retrieved) == IF retrieved # <<>> THEN retrieved[1].score ELSE ZeroScore

\* What the chat provider may answer, and what it may write as a summary.
ChatOutputs ==
    { <<"[","[","H","A","N","D","O","F","F","_","N","I","C","C","O","L","O","]","]">>,
      <<" ","o","k"," ","[","[","h","a","n","d","o","f","f","_","n","i","c","c","o","l","o","]","]"," ">>,
      <<"H","a","n","d","o","f","f","_","N","i","c","c","o","l","o",".">>,
      <<"H","A","N","D","O","F","F"," ","N","I","C","C","O","L","O">>,
      <<" ","S","i"," ">>,
      <<>> }

SummaryOutputs == { <<" ","w","i","f","i"," ">>, <<>> }

\* What the embedding provider may return for a query.
QueryVectors == {<<1, 0>>, <<0, 1>>, <<1, -1>>, <<0, 0>>}

\* The table and registry the service runs on: nothing loaded yet, or WbA loaded.
LoadedStore ==
    LoadFromExcel(EmptyStore, "a.xlsx", TRUE, <<<<4, 3>>, <<3, 4>>, <<1, 0>>>>).store

\* The store once the workbook whose rows serve every property is loaded.
SharedStore ==
    LoadFromExcel(EmptyStore, "shared.xlsx", TRUE, <<<<4, 3>>, <<3, 4>>, <<4, 3>>>>).store

NoSession ==
    [exists |-> FALSE, booking_id |-> NoneId, property_id |-> NoneSeq,
     guest_last_name |-> NoneSeq, memory_summary |-> NoneSeq]

NoResult == [status |-> "none", assistant_message |-> NoneSeq, booking_found |-> FALSE,
             kb_used |-> FALSE, kb_best_score |-> ZeroScore]

\* A worker that runs no turn.  The fields after `result` record what the turn
\* did, for the properties below.
IdleTurn ==
    [pc |-> "idle", phone |-> "None", text |-> NoneSeq, user_msg_id |-> 0,
     booking |-> NoBooking, entries |-> <<>>, retrieved |-> <<>>,
     best_score |-> ZeroScore, prompt |-> <<>>, reason |-> "", assistant |-> NoneSeq,
     prior |-> NoneSeq, updated |-> NoneSeq, result |-> NoResult,
     path |-> "", failed |-> "", raw |-> NoneSeq, reply_msg_id |-> 0,
     handoff_ids |-> <<>>, booking_calls |-> 0, embed_calls |-> 0, chat_calls |-> 0,
     summary_calls |-> 0, summary_writes |-> 0, summary_before |-> NoneSeq,
     push |-> "", history_ids |-> <<>>]

Active(w) == turns[w].pc \notin {"idle", "returned", "raised"}

\* Mutant: a failed stage is tried again instead of being raised.
RaiseRetries(w, stage) == turns[w]

\* The turn of worker w ends with an exception raised at `stage`.
Raise(w, stage) == [turns[w] EXCEPT !.pc = "raised", !.failed = stage]

(***************************************************************************)
(* service.py: ChatService.handle_incoming_message, one step per database  *)
(* transaction or external call.                                           *)
(***************************************************************************)
\* The call, and the SELECT that looks for the phone's session.
Begin(w, limit, overlap) ==
    /\ started < limit
    /\ ~Active(w)
    /\ \A v \in Workers : v < w => Active(v)
    /\ overlap \/ \A v \in Workers : ~Active(v)
    /\ \E phone \in Phones, text \in UserTexts :
          turns' = [turns EXCEPT ![w] =
              [IdleTurn EXCEPT !.phone = phone, !.text = text,
                               !.summary_before = sessions[phone].memory_summary,
                               !.pc = IF sessions[phone].exists THEN "store_user"
                                      ELSE "create_session"]]
    /\ started' = started + 1
    /\ UNCHANGED <<sessions, messages, handoffs, kbVars, load, kb_call>>

\* db.add(ChatSession(...)); db.commit(): phone_e164 is unique.
CreateSession(w) ==
    /\ turns[w].pc = "create_session"
    /\ IF sessions[turns[w].phone].exists
       THEN /\ turns' = [turns EXCEPT ![w] = Raise(w, "session")]
            /\ UNCHANGED sessions
       ELSE /\ sessions' = [sessions EXCEPT ![turns[w].phone] =
                               [NoSession EXCEPT !.exists = TRUE]]
            /\ turns' = [turns EXCEPT ![w].pc = "store_user"]
    /\ UNCHANGED <<messages, handoffs, started, kbVars, load, kb_call>>

\* Mutant: the inbound message is not written.
StoreUserMessageLost(w) ==
    /\ turns[w].pc = "store_user"
    /\ turns' = [turns EXCEPT ![w].pc = "booking"]
    /\ UNCHANGED <<sessions, messages, handoffs, started, kbVars, load, kb_call>>

\* db.add(ChatMessage(role="user", ...)); db.commit()
StoreUserMessage(w) ==
    /\ turns[w].pc = "store_user"
    /\ messages' = Append(messages, [session |-> turns[w].phone, role |-> "user",
                                     content |-> turns[w].text])
    /\ turns' = [turns EXCEPT ![w].pc = "booking",
                              ![w].user_msg_id = Len(messages) + 1]
    /\ UNCHANGED <<sessions, handoffs, started, kbVars, load, kb_call>>

\* Mutant: a missing booking is not noticed.
BookingMissingNever(ctx) == FALSE

\* if not booking_ctx
BookingMissing(ctx) == ~ctx.found

\* self._ciao.get_booking_by_phone(phone_e164): it returns None or the booking,
\* or raises.
BookingLookup(w) ==
    /\ turns[w].pc = "booking"
    /\ \E outcome \in {"absent", "found", "error"}, found \in BookingsOf(turns[w].phone) :
          LET ctx == IF outcome = "found" THEN found ELSE NoBooking
              called == [turns[w] EXCEPT !.booking_calls = @ + 1, !.booking = ctx]
          IN  turns' = [turns EXCEPT ![w] =
                  IF outcome = "error"
                  THEN [Raise(w, "booking") EXCEPT !.booking_calls = @ + 1]
                  ELSE IF BookingMissing(ctx)
                  THEN [called EXCEPT !.pc = "handoff", !.reason = "no_booking",
                                      !.path = "NO_BOOKING"]
                  ELSE [called EXCEPT !.pc = "persist_booking"]]
    /\ UNCHANGED <<sessions, messages, handoffs, started, kbVars, load, kb_call>>

\* Mutant: only the booking id is cached.
PersistBookingIdOnly(w) ==
    /\ turns[w].pc = "persist_booking"
    /\ sessions' = [sessions EXCEPT ![turns[w].phone] =
          IF @.exists
          THEN [@ EXCEPT !.booking_id = turns[w].booking.booking_id]
          ELSE @]
    /\ turns' = [turns EXCEPT ![w].pc = "retrieve"]
    /\ UNCHANGED <<messages, handoffs, started, kbVars, load, kb_call>>

\* session.booking_id = ...; db.commit()
PersistBooking(w) ==
    /\ turns[w].pc = "persist_booking"
    /\ sessions' = [sessions EXCEPT ![turns[w].phone] =
          IF @.exists
          THEN [@ EXCEPT !.booking_id = turns[w].booking.booking_id,
                         !.property_id = turns[w].booking.property_id,
                         !.guest_last_name = turns[w].booking.guest_last_name]
          ELSE @]
    /\ turns' = [turns EXCEPT ![w].pc = "retrieve"]
    /\ UNCHANGED <<messages, handoffs, started, kbVars, load, kb_call>>

\* The turn of worker w, after retrieve returned `retrieved`.
AfterRetrieve(t, retrieved) ==
    LET best == BestScore(retrieved)
        got == [t EXCEPT !.retrieved = retrieved, !.best_score = best]
    IN  IF KbInsufficient(retrieved, best)
        THEN [got EXCEPT !.pc = "handoff", !.reason = "no_kb_answer",
                         !.path = "KB_INSUFFICIENT"]
        ELSE [got EXCEPT !.pc = "compose"]

\* retrieve: entries = list(db.scalars(select(KBEntry)).all()); an empty table
\* returns [] at once.
RetrieveLoad(w) ==
    /\ turns[w].pc = "retrieve"
    /\ turns' = [turns EXCEPT ![w] =
          IF kb_entries = <<>>
          THEN AfterRetrieve(turns[w], <<>>)
          ELSE [turns[w] EXCEPT !.pc = "embed", !.entries = kb_entries]]
    /\ UNCHANGED <<sessions, messages, handoffs, started, kbVars, load, kb_call>>

\* retrieve: query_vec = embed_texts([query])[0], then filter, score, sort, cut.
EmbedQuery(w) ==
    /\ turns[w].pc = "embed"
    /\ \E ok \in BOOLEAN, query_vec \in QueryVectors :
          LET called == [turns[w] EXCEPT !.embed_calls = @ + 1]
          IN  turns' = [turns EXCEPT ![w] =
                  IF ~ok THEN [Raise(w, "embedding") EXCEPT !.embed_calls = @ + 1]
                  ELSE AfterRetrieve(called,
                           Retrieved(called.entries, query_vec,
                                     called.booking.property_id, KbTopK))]
    /\ UNCHANGED <<sessions, messages, handoffs, started, kbVars, load, kb_call>>

RECURSIVE MessagesOf(_, _)
MessagesOf(msgs, phone) ==
    IF msgs = <<>> THEN <<>>
    ELSE IF Head(msgs).session = phone
         THEN <<Head(msgs)>> \o MessagesOf(Tail(msgs), phone)
         ELSE MessagesOf(Tail(msgs), phone)

\* order_by(id.desc()).limit(n), reversed: the last n, oldest first
LastN(s, n) == IF Len(s) <= n THEN s ELSE SubSeq(s, Len(s) - n + 1, Len(s))

\* history_messages, after the current user message is taken off its end
History(msgs, phone, text) ==
    LET recent == LastN(MessagesOf(msgs, phone), HistoryLimit)
    IN  IF /\ recent # <<>>
           /\ recent[Len(recent)].role = "user"
           /\ recent[Len(recent)].content = text
        THEN SubSeq(recent, 1, Len(recent) - 1)
        ELSE recent

\* The ids (places in the table) of the messages of a phone, in id order.
RECURSIVE MessageIdsOf(_, _, _)
MessageIdsOf(msgs, phone, n) ==
    IF n = 0 THEN <<>>
    ELSE IF msgs[n].session = phone
         THEN Append(MessageIdsOf(msgs, phone, n - 1), n)
         ELSE MessageIdsOf(msgs, phone, n - 1)

\* The ids of history_messages, after the same cut at the end.
HistoryIds(msgs, phone, text) ==
    LET recent == LastN(MessageIdsOf(msgs, phone, Len(msgs)), HistoryLimit)
    IN  IF /\ recent # <<>>
           /\ msgs[recent[Len(recent)]].role = "user"
           /\ msgs[recent[Len(recent)]].content = text
        THEN SubSeq(recent, 1, Len(recent) - 1)
        ELSE recent

RECURSIVE HistoryPrompt(_)
HistoryPrompt(history) ==
    IF history = <<>> THEN <<>>
    ELSE IF Head(history).role \in {"user", "assistant"}
         THEN <<[role |-> Head(history).role, kind |-> "history",
                 text |-> Head(history).content, data |-> <<>>]>>
                  \o HistoryPrompt(Tail(history))
         ELSE HistoryPrompt(Tail(history))

\* The `messages` list handed to chat_completion.
Prompt(t, session, msgs, registry) ==
    << [role |-> "system", kind |-> "persona", text |-> <<>>, data |-> <<>>],
       [role |-> "system", kind |-> "guardrails", text |-> <<>>, data |-> <<>>],
       [role |-> "system", kind |-> "context", text |-> t.booking.guest_last_name,
        data |-> <<t.booking.booking_id, registry>>] >>
    \o (IF session.exists /\ Truthy(session.memory_summary)
        THEN <<[role |-> "system", kind |-> "memory",
                text |-> session.memory_summary, data |-> <<>>]>>
        ELSE <<>>)
    \o (IF session.exists THEN HistoryPrompt(History(msgs, t.phone, t.text)) ELSE <<>>)
    \o << [role |-> "system", kind |-> "kb", text |-> <<>>, data |-> t.retrieved],
          [role |-> "user", kind |-> "current", text |-> t.text, data |-> <<>>] >>

\* The read of the session's summary and last messages, and the prompt built
\* from them.
ComposePrompt(w) ==
    /\ turns[w].pc = "compose"
    /\ turns' = [turns EXCEPT ![w].pc = "chat",
                              ![w].history_ids =
                                  IF sessions[turns[w].phone].exists
                                  THEN HistoryIds(messages, turns[w].phone, turns[w].text)
                                  ELSE <<>>,
                              ![w].prompt =
                                  Prompt(turns[w], sessions[turns[w].phone], messages,
                                         DictGet(property_registry,
                                                 turns[w].booking.property_id, <<>>))]
    /\ UNCHANGED <<sessions, messages, handoffs, started, kbVars, load, kb_call>>

\* assistant = chat_completion(messages).strip(), and the sentinel test.
ChatCall(w) ==
    /\ turns[w].pc = "chat"
    /\ \E ok \in BOOLEAN, out \in ChatOutputs :
          LET assistant == Strip(out)
              called == [turns[w] EXCEPT !.chat_calls = @ + 1, !.raw = out,
                                         !.assistant = assistant]
          IN  turns' = [turns EXCEPT ![w] =
                  IF ~ok THEN [Raise(w, "chat") EXCEPT !.chat_calls = @ + 1]
                  ELSE IF IsModelHandoff(assistant)
                  THEN [called EXCEPT !.pc = "handoff", !.reason = "model_handoff",
                                      !.path = "HANDOFF"]
                  ELSE [called EXCEPT !.pc = "store", !.path = "ANSWERED"]]
    /\ UNCHANGED <<sessions, messages, handoffs, started, kbVars, load, kb_call>>

\* Mutant: the HandoffRequest is written without the booking of the turn.
CreateHandoffAnonymous(w) ==
    /\ turns[w].pc = "handoff"
    /\ handoffs' = Append(handoffs,
          [phone_e164 |-> turns[w].phone,
           guest_last_name |-> NoneSeq,
           property_id |-> NoneSeq,
           booking_id |-> NoneId,
           user_message |-> turns[w].text,
           reason |-> turns[w].reason])
    /\ turns' = [turns EXCEPT ![w].pc = "notify",
                              ![w].handoff_ids = Append(@, Len(handoffs) + 1)]
    /\ UNCHANGED <<sessions, messages, started, kbVars, load, kb_call>>

\* _create_handoff, first part: db.add(HandoffRequest(...)); db.commit()
CreateHandoff(w) ==
    /\ turns[w].pc = "handoff"
    /\ handoffs' = Append(handoffs,
          [phone_e164 |-> turns[w].phone,
           guest_last_name |-> turns[w].booking.guest_last_name,
           property_id |-> turns[w].booking.property_id,
           booking_id |-> turns[w].booking.booking_id,
           user_message |-> turns[w].text,
           reason |-> turns[w].reason])
    /\ turns' = [turns EXCEPT ![w].pc = "notify",
                              ![w].handoff_ids = Append(@, Len(handoffs) + 1)]
    /\ UNCHANGED <<sessions, messages, started, kbVars, load, kb_call>>

\* Mutant: a failed push is not caught.
AfterPushRaises(t, push) ==
    IF push = "failed"
    THEN [t EXCEPT !.pc = "raised", !.failed = "push", !.push = push]
    ELSE [t EXCEPT !.pc = "store", !.push = push,
                   !.assistant = HandoffMessage(t.booking.guest_last_name)]

\* `except Exception: pass` around the push; then the caller takes the
\* templated acknowledgement as the reply.
AfterPush(t, push) ==
    [t EXCEPT !.pc = "store", !.push = push,
              !.assistant = HandoffMessage(t.booking.guest_last_name)]

\* _create_handoff, second part: the webhook push, tried when a URL is
\* configured; it is delivered or it fails (error, timeout).
NotifyNiccolo(w) ==
    /\ turns[w].pc = "notify"
    /\ \E push \in {"not configured", "delivered", "failed"} :
          turns' = [turns EXCEPT ![w] = AfterPush(turns[w], push)]
    /\ UNCHANGED <<sessions, messages, handoffs, started, kbVars, load, kb_call>>

\* The "status" of the dict each return statement builds.
ReturnStatus(path) == IF path \in {"NO_BOOKING", "KB_INSUFFICIENT"} THEN "handoff" ELSE "ok"

\* The turn returns: its locals go, the result and the record of the turn stay.
Return(t) ==
    [t EXCEPT !.pc = "returned", !.entries = <<>>, !.prompt = <<>>,
              !.history_ids = <<>>,
              !.result = [status |-> ReturnStatus(t.path),
                          assistant_message |-> t.assistant,
                          booking_found |-> t.path # "NO_BOOKING",
                          kb_used |-> t.path \notin {"NO_BOOKING", "KB_INSUFFICIENT"},
                          kb_best_score |-> t.best_score]]

\* Mutant: the model-handoff path returns without refreshing the memory.
ReturnsAfterStoreOnHandoff(path) == path \in {"NO_BOOKING", "KB_INSUFFICIENT", "HANDOFF"}

\* The paths whose return statement follows _store_assistant directly.
ReturnsAfterStore(path) == path \in {"NO_BOOKING", "KB_INSUFFICIENT"}

\* Mutant: the reply is written over the last message instead of after it.
StoreAssistantOverwrites(w) ==
    /\ turns[w].pc = "store"
    /\ messages' = IF sessions[turns[w].phone].exists /\ messages # <<>>
                   THEN [messages EXCEPT ![Len(messages)] =
                            [session |-> turns[w].phone, role |-> "assistant",
                             content |-> turns[w].assistant]]
                   ELSE messages
    /\ LET stored == [turns[w] EXCEPT !.reply_msg_id =
                         IF sessions[turns[w].phone].exists
                         THEN Len(messages) ELSE 0]
       IN  turns' = [turns EXCEPT ![w] =
               IF ReturnsAfterStore(stored.path)
               THEN Return(stored)
               ELSE [stored EXCEPT !.pc = "mem_read"]]
    /\ UNCHANGED <<sessions, handoffs, started, kbVars, load, kb_call>>

\* _store_assistant, and the return that follows it on the two short paths.
StoreAssistant(w) ==
    /\ turns[w].pc = "store"
    /\ messages' = IF sessions[turns[w].phone].exists
                   THEN Append(messages, [session |-> turns[w].phone,
                                          role |-> "assistant",
                                          content |-> turns[w].assistant])
                   ELSE messages
    /\ LET stored == [turns[w] EXCEPT !.reply_msg_id =
                         IF sessions[turns[w].phone].exists
                         THEN Len(messages) + 1 ELSE 0]
       IN  turns' = [turns EXCEPT ![w] =
               IF ReturnsAfterStore(stored.path)
               THEN Return(stored)
               ELSE [stored EXCEPT !.pc = "mem_read"]]
    /\ UNCHANGED <<sessions, handoffs, started, kbVars, load, kb_call>>

\* _maybe_update_memory: the read of the last messages and the prior summary.
MemoryRead(w) ==
    /\ turns[w].pc = "mem_read"
    /\ turns' = [turns EXCEPT ![w] =
          IF ~sessions[turns[w].phone].exists THEN Return(turns[w])
          ELSE [turns[w] EXCEPT !.pc = "mem_chat",
                   !.prior = IF Truthy(sessions[turns[w].phone].memory_summary)
                             THEN sessions[turns[w].phone].memory_summary ELSE <<>>]]
    /\ UNCHANGED <<sessions, messages, handoffs, started, kbVars, load, kb_call>>

\* _maybe_update_memory: updated = chat_completion(prompt).strip()
MemoryChat(w) ==
    /\ turns[w].pc = "mem_chat"
    /\ \E ok \in BOOLEAN, out \in SummaryOutputs :
          turns' = [turns EXCEPT ![w] =
              IF ~ok THEN [Raise(w, "memory") EXCEPT !.summary_calls = @ + 1]
              ELSE [turns[w] EXCEPT !.pc = "mem_write", !.updated = Strip(out),
                                    !.summary_calls = @ + 1]]
    /\ UNCHANGED <<sessions, messages, handoffs, started, kbVars, load, kb_call>>

\* Mutant: the new summary is computed but not written.
MemoryWriteSkipped(w) ==
    /\ turns[w].pc = "mem_write"
    /\ turns' = [turns EXCEPT ![w] = Return(turns[w])]
    /\ UNCHANGED <<sessions, messages, handoffs, started, kbVars, load, kb_call>>

\* _maybe_update_memory: session.memory_summary = updated; db.commit(); then
\* handle_incoming_message returns.
MemoryWrite(w) ==
    /\ turns[w].pc = "mem_write"
    /\ sessions' = [sessions EXCEPT ![turns[w].phone] =
          IF @.exists THEN [@ EXCEPT !.memory_summary = turns[w].updated] ELSE @]
    /\ turns' = [turns EXCEPT ![w] =
          Return([turns[w] EXCEPT !.summary_writes =
                     IF sessions[turns[w].phone].exists THEN @ + 1 ELSE @])]
    /\ UNCHANGED <<messages, handoffs, started, kbVars, load, kb_call>>

(***************************************************************************)
(* The service: turns on a loaded (or still empty) KB store.               *)
(***************************************************************************)
Init ==
    /\ sessions = [p \in Phones |-> NoSession]
    /\ messages = <<>>
    /\ handoffs = <<>>
    /\ \E s \in {EmptyStore, LoadedStore} :
          /\ kb_entries = s.kb_entries
          /\ property_registry = s.property_registry
          /\ registry_rows = s.registry_rows
          /\ registry_by_id = s.registry_by_id
          /\ registry_by_name = s.registry_by_name
          /\ registry_key_field = s.registry_key_field
    /\ turns = [w \in Workers |-> IdleTurn]
    /\ started = 0
    /\ load = NoLoad
    /\ kb_call = NoCall

\* The steps of a turn in progress.
Step(w) ==
    \/ CreateSession(w)
    \/ StoreUserMessage(w)
    \/ BookingLookup(w)
    \/ PersistBooking(w)
    \/ RetrieveLoad(w)
    \/ EmbedQuery(w)
    \/ ComposePrompt(w)
    \/ ChatCall(w)
    \/ CreateHandoff(w)
    \/ NotifyNiccolo(w)
    \/ StoreAssistant(w)
    \/ MemoryRead(w)
    \/ MemoryChat(w)
    \/ MemoryWrite(w)

\* Turns one after the other.
Next == \E w \in Workers : Begin(w, MaxTurns, FALSE) \/ Step(w)

Spec == Init /\ [][Next]_vars

\* Turns one after the other, each worker running its turn on: no statement of
\* handle_incoming_message waits for anything but the call it makes.
SpecFair == Spec /\ \A w \in Workers : WF_vars(Step(w))

\* Turns that may overlap, as the request workers allow.
NextOverlap == \E w \in Workers : Begin(w, MaxOverlapTurns, TRUE) \/ Step(w)

SpecOverlap == Init /\ [][NextOverlap]_vars


(***************************************************************************)
(* The KB store alone: a sequence of load_from_excel calls.                *)
(***************************************************************************)
InitKB ==
    /\ sessions = [p \in Phones |-> NoSession]
    /\ messages = <<>>
    /\ handoffs = <<>>
    /\ kb_entries = <<>>
    /\ property_registry = <<>>
    /\ registry_rows = <<>>
    /\ registry_by_id = <<>>
    /\ registry_by_name = <<>>
    /\ registry_key_field = NoneSeq
    /\ turns = [w \in Workers |-> IdleTurn]
    /\ started = 0
    /\ load = NoLoad
    /\ kb_call = NoCall

NextKB == \E excel_path \in Paths : Load(excel_path)

SpecKB == InitKB /\ [][NextKB]_vars

(***************************************************************************)
(* The read functions of the KB store, called on a store that one load     *)
(* filled (or left empty), with whatever vectors the provider returned.    *)
(***************************************************************************)
InitRetrieve ==
    /\ sessions = [p \in Phones |-> NoSession]
    /\ messages = <<>>
    /\ handoffs = <<>>
    /\ \E excel_path \in ProbePaths :
       \E embeddings \in [1..Len(ValidRows(excel_path)) -> ProbeVectors] :
          LET s == LoadFromExcel(EmptyStore, excel_path, TRUE, embeddings).store
          IN  /\ kb_entries = s.kb_entries
              /\ property_registry = s.property_registry
              /\ registry_rows = s.registry_rows
              /\ registry_by_id = s.registry_by_id
              /\ registry_by_name = s.registry_by_name
              /\ registry_key_field = s.registry_key_field
    /\ turns = [w \in Workers |-> IdleTurn]
    /\ started = 0
    /\ load = NoLoad
    /\ kb_call = NoCall

NextRetrieve ==
    \/ \E property_hint \in RetrieveHints, top_k \in TopKs : Retrieve(property_hint, top_k)
    \/ \E unit_cell \in UnitTokens, property_hint \in PropertyHints :
          MatchProperty(unit_cell, property_hint)

SpecRetrieve == InitRetrieve /\ [][NextRetrieve]_vars

(***************************************************************************)
(* _hash_row and resolve_property_name called on their own, on a store     *)
(* whose registry was read from one of three sheets.                       *)
(***************************************************************************)
\* A registry where the id of one property is the name of another, and where
\* one record has an id and no name.
RegistrySheetB ==
    [name |-> StruttureName,
     rows |-> << RegistryHeaderRow,
                 << <<"B","l","u">>, PropertyP1 >>,
                 << PropertyP1, <<"P","3">> >>,
                 << NoneSeq, <<"P","4">> >>,
                 << PropertyP2, NoneSeq >> >>]

\* The store after a load that read this registry and no valid KB row.
RegistryStore ==
    LET rows == ReadRegistryRows(RegistrySheetB)
        ix == BuildRegistryIndexes(rows, NoneSeq)
    IN  [kb_entries |-> <<>>, property_registry |-> ix.property_registry,
         registry_rows |-> rows, registry_by_id |-> ix.by_id,
         registry_by_name |-> ix.by_name, registry_key_field |-> ix.key_field]

LookupStores == {EmptyStore, LoadedStore, RegistryStore}

\* The identifiers resolve_property_name is called with.
PropertyIds ==
    { NoneSeq, <<>>, <<" ">>, PropertyP1, <<" ","P","1"," ">>, <<"p","1">>,
      <<"B","l","u">>, PropertyP2, <<"P","3">>, <<"P","4">>, PropertyP9,
      <<"P","9"," ">> }

\* The row maps _hash_row is called with: every insertion order of up to three
\* fields, each holding a text or None.
HashKeys == {"risposta", "Categoria", "ambito"}
HashValues == {NoneSeq, <<"a">>}
RowMaps ==
    UNION { { m \in [1..n -> HashKeys \X HashValues] :
                \A i, j \in 1..n : m[i][1] = m[j][1] => i = j } : n \in 0..3 }

\* _hash_row(row); the call before it is remembered beside it.
HashRowCall(row) ==
    /\ kb_call' = [NoCall EXCEPT !.op = "_hash_row", !.row = row, !.hash = HashRow(row),
                                 !.prev_row = kb_call.row, !.prev_hash = kb_call.hash]
    /\ UNCHANGED <<kbVars, chatVars, load>>

\* resolve_property_name(property_id)
ResolveProperty(property_id) ==
    /\ kb_call' = [NoCall EXCEPT !.op = "resolve_property_name",
                                 !.property_id = property_id,
                                 !.name = ResolvePropertyName(Store, property_id).name,
                                 !.record = ResolvePropertyName(Store, property_id).record]
    /\ UNCHANGED <<kbVars, chatVars, load>>

InitLookup ==
    /\ sessions = [p \in Phones |-> NoSession]
    /\ messages = <<>>
    /\ handoffs = <<>>
    /\ \E s \in LookupStores :
          /\ kb_entries = s.kb_entries
          /\ property_registry = s.property_registry
          /\ registry_rows = s.registry_rows
          /\ registry_by_id = s.registry_by_id
          /\ registry_by_name = s.registry_by_name
          /\ registry_key_field = s.registry_key_field
    /\ turns = [w \in Workers |-> IdleTurn]
    /\ started = 0
    /\ load = NoLoad
    /\ kb_call = NoCall

NextLookup ==
    \/ \E row \in RowMaps : HashRowCall(row)
    \/ \E property_id \in PropertyIds : ResolveProperty(property_id)

SpecLookup == InitLookup /\ [][NextLookup]_vars

(***************************************************************************)
(* Turns served while an administrator uploads a new workbook: the upload  *)
(* handler runs load_from_excel on the event loop, the turns run on the    *)
(* request workers.                                                        *)
(***************************************************************************)
InitReload ==
    /\ sessions = [p \in Phones |-> NoSession]
    /\ messages = <<>>
    /\ handoffs = <<>>
    /\ kb_entries = SharedStore.kb_entries
    /\ property_registry = SharedStore.property_registry
    /\ registry_rows = SharedStore.registry_rows
    /\ registry_by_id = SharedStore.registry_by_id
    /\ registry_by_name = SharedStore.registry_by_name
    /\ registry_key_field = SharedStore.registry_key_field
    /\ turns = [w \in Workers |-> IdleTurn]
    /\ started = 0
    /\ load = [NoLoad EXCEPT !.history = <<SharedStore>>, !.before = SharedStore]
    /\ kb_call = NoCall

NextReload ==
    \/ \E w \in Workers : Begin(w, MaxReloadTurns, FALSE) \/ Step(w)
    \/ \E excel_path \in Paths : LoadRead(excel_path)
    \/ LoadIndex
    \/ LoadSync

SpecReload == InitReload /\ [][NextReload]_vars

(***************************************************************************)
(* Properties of a turn.  The sentinel test and the score threshold are    *)
(* restated here from the specification, not taken from the operators      *)
(* above.                                                                  *)
(***************************************************************************)
\* The text holds the escalation sentinel at some position, in any letter case.
HasSentinel(text) ==
    \E i \in 1..Len(text) :
        /\ i + Len(SentinelCore) - 1 <= Len(text)
        /\ \A k \in 1..Len(SentinelCore) : UpperChar(text[i + k - 1]) = SentinelCore[k]

\* The score is strictly below 0.80 = 4/5.
BelowEightTenths(s) ==
    IF s.num <= 0 THEN TRUE ELSE 25 * s.num * s.num < 16 * s.den2

IsUserMessage(m, t) == m = [session |-> t.phone, role |-> "user", content |-> t.text]

IsReply(m, t, content) ==
    m = [session |-> t.phone, role |-> "assistant", content |-> content]

\* The turn created exactly one HandoffRequest, and it carries this reason.
OneHandoff(t, reason) ==
    /\ Len(t.handoff_ids) = 1
    /\ t.handoff_ids[1] \in 1..Len(handoffs)
    /\ handoffs[t.handoff_ids[1]].reason = reason
    /\ handoffs[t.handoff_ids[1]].phone_e164 = t.phone
    /\ handoffs[t.handoff_ids[1]].user_message = t.text

\* The turn stored `content` as its assistant message.
StoredReply(t, content) ==
    /\ t.reply_msg_id \in 1..Len(messages)
    /\ IsReply(messages[t.reply_msg_id], t, content)

\* The Booking Resolver answered, and answered that there is no booking.
NoBookingTurn(t) == t.booking_calls = 1 /\ t.failed # "booking" /\ ~t.booking.found

\* The booking resolved and retrieve has returned its list.
RetrievalDone(t) ==
    /\ t.booking.found
    /\ t.pc \notin {"persist_booking", "retrieve", "embed"}
    /\ t.failed # "embedding"

\* The chat provider has returned the answer text.
ChatAnswered(t) == t.chat_calls = 1 /\ t.failed # "chat" /\ t.raw # NoneSeq

\* C1: a turn for which the Booking Resolver returns no booking goes straight to
\* the handoff: it calls neither the chat nor the embedding provider, creates
\* exactly one HandoffRequest with reason no_booking, stores the templated
\* acknowledgement as the assistant message and returns status "handoff".
C1_NoBookingHandoff ==
    \A w \in Workers :
        LET t == turns[w] IN
        NoBookingTurn(t) =>
            /\ t.pc \in {"handoff", "notify", "store", "returned"}
            /\ t.chat_calls = 0 /\ t.summary_calls = 0 /\ t.embed_calls = 0
            /\ t.pc = "handoff" => t.handoff_ids = <<>>
            /\ t.pc \in {"notify", "store", "returned"} => OneHandoff(t, "no_booking")
            /\ t.pc = "returned" =>
                  /\ t.result.status = "handoff"
                  /\ t.result.assistant_message = HandoffMessage(NoneSeq)
                  /\ StoredReply(t, HandoffMessage(NoneSeq))

\* A no-booking turn has returned, for a phone whose session still caches the
\* guest name of an earlier, resolved turn.
C1_Witness ==
    \E w \in Workers :
        /\ turns[w].pc = "returned"
        /\ NoBookingTurn(turns[w])
        /\ Truthy(sessions[turns[w].phone].guest_last_name)

\* C2: once the booking has resolved and retrieval is done, a turn with no result
\* or with a best score strictly below the minimum score makes no chat call,
\* creates exactly one HandoffRequest with reason no_kb_answer, stores the
\* templated acknowledgement and returns "handoff"; a turn whose best score is
\* at least the minimum score goes on to the chat call.
C2_KbThreshold ==
    \A w \in Workers :
        LET t == turns[w] IN
        RetrievalDone(t) =>
            IF t.retrieved = <<>> \/ BelowEightTenths(t.retrieved[1].score)
            THEN /\ t.pc \in {"handoff", "notify", "store", "returned"}
                 /\ t.chat_calls = 0
                 /\ t.pc = "handoff" => t.handoff_ids = <<>>
                 /\ t.pc \in {"notify", "store", "returned"} =>
                       OneHandoff(t, "no_kb_answer")
                 /\ t.pc = "returned" =>
                       /\ t.result.status = "handoff"
                       /\ t.result.assistant_message
                              = HandoffMessage(t.booking.guest_last_name)
                       /\ StoredReply(t, HandoffMessage(t.booking.guest_last_name))
            ELSE t.pc \in {"compose", "chat"} \/ t.chat_calls = 1

\* A turn has returned the handoff after retrieval found passages whose best
\* score is positive but below the minimum.
C2_Witness ==
    \E w \in Workers :
        /\ turns[w].pc = "returned"
        /\ RetrievalDone(turns[w])
        /\ turns[w].retrieved # <<>>
        /\ turns[w].retrieved[1].score.num > 0
        /\ BelowEightTenths(turns[w].retrieved[1].score)

\* C3: when the chat output holds the sentinel anywhere, in any letter case, the
\* turn records one HandoffRequest with reason model_handoff and stores and
\* returns the templated acknowledgement instead of the model text; and no
\* assistant message of any transcript holds the sentinel.
C3_SentinelHandoff ==
    /\ \A w \in Workers :
          LET t == turns[w] IN
          (ChatAnswered(t) /\ HasSentinel(t.raw)) =>
              /\ t.pc = "handoff" => t.handoff_ids = <<>>
              /\ t.pc # "handoff" => OneHandoff(t, "model_handoff")
              /\ t.pc = "store" => t.assistant = HandoffMessage(t.booking.guest_last_name)
              /\ t.pc \notin {"handoff", "notify", "store"} =>
                    StoredReply(t, HandoffMessage(t.booking.guest_last_name))
              /\ t.pc = "returned" =>
                    t.result.assistant_message
                        = HandoffMessage(t.booking.guest_last_name)
    /\ \A i \in 1..Len(messages) :
          messages[i].role = "assistant" => ~HasSentinel(messages[i].content)

\* A turn has returned after the model wrote the sentinel in lower case inside a
\* longer text.
C3_Witness ==
    \E w \in Workers :
        /\ turns[w].pc = "returned"
        /\ ChatAnswered(turns[w])
        /\ HasSentinel(turns[w].raw)
        /\ ~Contains(turns[w].raw, SentinelCore)
        /\ Len(turns[w].raw) > Len(Sentinel)

\* C4: a turn whose booking resolves, whose KB is sufficient and whose chat
\* output holds no sentinel creates no HandoffRequest, stores the model text
\* trimmed as its assistant message and returns it with status "ok"; the
\* session's memory summary is overwritten by the refresh, and only after the
\* reply was stored.
C4_AnsweredTurn ==
    \A w \in Workers :
        LET t == turns[w] IN
        /\ t.summary_writes > 0 => t.reply_msg_id # 0
        /\ (ChatAnswered(t) /\ ~HasSentinel(t.raw)) =>
              /\ t.handoff_ids = <<>>
              /\ t.pc \in {"store", "mem_read", "mem_chat", "mem_write", "returned", "raised"}
              /\ t.pc # "store" => StoredReply(t, Strip(t.raw))
              /\ t.pc = "returned" =>
                    /\ t.result.status = "ok"
                    /\ t.result.assistant_message = Strip(t.raw)
                    /\ t.summary_writes = 1
                    /\ sessions[t.phone].memory_summary = t.updated

\* An answered turn has returned, and the summary the session held before the
\* turn has been replaced by a different one.
C4_Witness ==
    \E w \in Workers :
        /\ turns[w].pc = "returned"
        /\ ChatAnswered(turns[w])
        /\ ~HasSentinel(turns[w].raw)
        /\ turns[w].raw # Strip(turns[w].raw)
        /\ Truthy(turns[w].summary_before)
        /\ sessions[turns[w].phone].memory_summary # turns[w].summary_before

\* C5: a failure of the booking lookup, of the query embedding or of the answer
\* chat call raises nothing out of the turn: the turn still returns, with a
\* HandoffRequest recorded and the acknowledgement stored and returned.
C5_FailureBecomesHandoff ==
    \A w \in Workers :
        LET t == turns[w] IN
        t.failed \in {"booking", "embedding", "chat"} =>
            /\ t.pc # "raised"
            /\ t.pc = "returned" =>
                  /\ Len(t.handoff_ids) = 1
                  /\ t.result.assistant_message
                         = HandoffMessage(t.booking.guest_last_name)

\* C6: before any external call of a turn (booking lookup, embedding, chat) the
\* phone has a session and the inbound message is in its transcript, and it
\* stays there when a later stage fails.
C6_InboundFirst ==
    \A w \in Workers :
        LET t == turns[w] IN
        (\/ t.pc = "booking"
         \/ t.booking_calls + t.embed_calls + t.chat_calls + t.summary_calls > 0) =>
            /\ sessions[t.phone].exists
            /\ t.user_msg_id \in 1..Len(messages)
            /\ IsUserMessage(messages[t.user_msg_id], t)

\* The answer chat call of a first-seen phone's turn has failed, and the inbound
\* message is in the transcript.
C6_Witness ==
    \E w \in Workers :
        /\ turns[w].pc = "raised"
        /\ turns[w].failed = "chat"
        /\ turns[w].user_msg_id = 1
        /\ IsUserMessage(messages[1], turns[w])

\* C7: a failure of the memory-summary refresh raises nothing out of the turn:
\* the turn returns the reply it stored, with its status, and the summary the
\* session held is left in place.
C7_RefreshFailureHidden ==
    \A w \in Workers :
        LET t == turns[w] IN
        t.failed = "memory" =>
            /\ t.pc # "raised"
            /\ sessions[t.phone].memory_summary = t.summary_before
            /\ t.pc = "returned" =>
                  /\ t.result.status = "ok"
                  /\ StoredReply(t, t.result.assistant_message)

\* C8: a turn on the no-booking or the KB-insufficient path makes no
\* summarization call and leaves the session's memory summary as it was; a turn
\* that ended on the ANSWERED or the model HANDOFF path has made exactly one
\* memory-summary refresh.
C8_RefreshOnlyAfterAnswer ==
    \A w \in Workers :
        LET t == turns[w] IN
        /\ t.summary_calls <= 1
        /\ (NoBookingTurn(t) \/ (RetrievalDone(t) /\ t.chat_calls = 0
                                  /\ t.pc \in {"handoff", "notify", "store", "returned"})) =>
              /\ t.summary_calls = 0
              /\ t.summary_writes = 0
              /\ sessions[t.phone].memory_summary = t.summary_before
        /\ (ChatAnswered(t) /\ t.pc \in {"returned", "raised"}) => t.summary_calls = 1
        /\ (ChatAnswered(t) /\ t.pc = "returned") => t.summary_writes = 1

\* A turn has returned on the model HANDOFF path with its one refresh written.
C8_Witness ==
    \E w \in Workers :
        /\ turns[w].pc = "returned"
        /\ ChatAnswered(turns[w])
        /\ HasSentinel(turns[w].raw)
        /\ turns[w].summary_calls = 1
        /\ turns[w].summary_writes = 1

\* C18: a failed notification push raises nothing out of the turn; the
\* HandoffRequest is in the table before the push is tried; and the reply
\* stored and the result returned are the acknowledgement and the status of
\* the turn's path, whatever the push did.
C18_PushFailureSwallowed ==
    \A w \in Workers :
        LET t == turns[w] IN
        /\ t.failed # "push"
        /\ (t.pc = "notify" \/ t.push # "") =>
              /\ OneHandoff(t, t.reason)
              /\ t.pc \in {"notify", "store", "mem_read", "mem_chat", "mem_write",
                            "returned", "raised"}
              /\ t.pc = "raised" => t.failed = "memory"
              /\ t.pc = "store" => t.assistant = HandoffMessage(t.booking.guest_last_name)
              /\ t.pc \notin {"notify", "store"} =>
                    StoredReply(t, HandoffMessage(t.booking.guest_last_name))
              /\ t.pc = "returned" =>
                    /\ t.result.assistant_message
                           = HandoffMessage(t.booking.guest_last_name)
                    /\ t.result.status
                           = (IF t.reason = "model_handoff" THEN "ok" ELSE "handoff")

\* A turn has returned its handoff acknowledgement after the push failed.
C18_Witness ==
    \E w \in Workers :
        /\ turns[w].pc = "returned"
        /\ turns[w].push = "failed"
        /\ turns[w].reason = "no_kb_answer"
        /\ StoredReply(turns[w], turns[w].result.assistant_message)

\* The transcript of every phone, and the whole table, only grow at the end.
MessagesOnlyAppended ==
    /\ Len(messages') >= Len(messages)
    /\ SubSeq(messages', 1, Len(messages)) = messages
    /\ \A p \in Phones :
          LET old == MessagesOf(messages, p)
              new == MessagesOf(messages', p)
          IN  Len(new) >= Len(old) /\ SubSeq(new, 1, Len(old)) = old

\* C19: in every step of every interleaving of turns the stored messages keep
\* their session, role and content and none is deleted, so each transcript
\* has every earlier one as a prefix; and every stored role is one of user,
\* assistant, system.
C19_AppendOnlyMessages ==
    /\ [][MessagesOnlyAppended]_vars
    /\ [](\A i \in 1..Len(messages) :
             messages[i].role \in {"user", "assistant", "system"})

\* Two overlapping turns of one phone have both finished, and their four
\* messages are interleaved in the transcript.
C19_Witness ==
    \E w, v \in Workers :
        /\ w # v
        /\ turns[w].phone = turns[v].phone
        /\ turns[w].pc = "returned" /\ turns[v].pc = "returned"
        /\ turns[w].user_msg_id < turns[v].user_msg_id
        /\ turns[v].user_msg_id < turns[w].reply_msg_id
        /\ turns[w].reply_msg_id < turns[v].reply_msg_id
        /\ Len(MessagesOf(messages, turns[w].phone)) = 4

\* C20: in every interleaving of turns, two first turns of one phone included,
\* no session is ever deleted and every turn that is past its first
\* transaction has a session for its phone (one row per phone: the phone is
\* the key) with the turn's inbound message in its transcript.
C20_OneSessionEveryMessage ==
    /\ [][\A p \in Phones : sessions[p].exists => sessions'[p].exists]_vars
    /\ [](\A w \in Workers :
             LET t == turns[w] IN
             t.pc \notin {"idle", "create_session", "store_user"} =>
                 /\ sessions[t.phone].exists
                 /\ t.user_msg_id \in 1..Len(messages)
                 /\ IsUserMessage(messages[t.user_msg_id], t))

(***************************************************************************)
(* Properties of the KB store.                                             *)
(***************************************************************************)
\* C9: after a load that read a workbook and did not raise, the row hashes of
\* the stored entries are exactly the hashes of that workbook's valid rows, and
\* no two stored entries share a hash.
C9_StoreMirrorsSheet ==
    (load.n > 0 /\ load.read /\ ~load.raised) =>
        /\ EntryHashes(kb_entries) = RowHashes(ValidRows(load.path))
        /\ UniqueHashes(kb_entries)

\* C10: a load of the file that the load before it read without raising deletes
\* nothing, inserts nothing, makes no embedding call and leaves the entries, the
\* registry and its indexes as the first load left them.
C10_SecondLoadIdempotent ==
    (load.n >= 2 /\ load.path = load.prev_path /\ ~load.prev_raised) =>
        /\ ~load.raised
        /\ load.deleted = 0
        /\ load.inserted = 0
        /\ load.embed_calls = 0
        /\ Store = load.before

\* The workbook with three valid rows has been loaded twice in a row.
C10_Witness ==
    /\ load.n >= 2
    /\ load.path = "a.xlsx"
    /\ load.prev_path = "a.xlsx"
    /\ ~load.prev_raised
    /\ Len(kb_entries) = 3
    /\ property_registry # <<>>

\* The embedding text of a stored entry, rebuilt from its columns.
EntryText(e) ==
    (IF Truthy(e.category) THEN <<<<"Categoria", e.category>>>> ELSE <<>>)
    \o (IF Truthy(e.unit) THEN <<<<"Appartamento /stanza", e.unit>>>> ELSE <<>>)
    \o (IF Truthy(e.scope) THEN <<<<"ambito", e.scope>>>> ELSE <<>>)
    \o (IF Truthy(e.description) THEN <<<<"descrizione", e.description>>>> ELSE <<>>)
    \o (IF Truthy(e.answer) THEN <<<<"risposta", e.answer>>>> ELSE <<>>)

\* The last load ran a sync pass, and the pass committed.
SyncCommitted == load.n > 0 /\ load.rows # <<>> /\ ~load.raised

\* C11: a sync pass that commits deletes exactly the stored entries whose hash
\* is not desired, inserts exactly the desired rows whose hash was not stored,
\* each with the vector the embedding provider returned for its text in the
\* one call of the pass, and leaves every entry whose hash is in both sets as
\* it was, without embedding it again.
C11_SyncPass ==
    SyncCommitted =>
        LET old == load.before.kb_entries
            desired == RowHashes(load.rows)
            stale == {i \in 1..Len(old) : old[i].row_hash \notin desired}
            first_new == Len(kb_entries) - load.inserted
        IN  /\ load.deleted = Cardinality(stale)
            /\ \A i \in 1..Len(old) :
                   (old[i].row_hash \in desired)
                       <=> (\E k \in 1..Len(kb_entries) : kb_entries[k] = old[i])
            /\ EntryHashes(kb_entries) = desired
            /\ first_new = Len(old) - load.deleted
            /\ \A k \in 1..first_new : \E i \in 1..Len(old) : kb_entries[k] = old[i]
            /\ Len(load.texts) = load.inserted
            /\ Len(load.vectors) = load.inserted
            /\ load.embed_calls = (IF load.inserted = 0 THEN 0 ELSE 1)
            /\ \A j \in 1..load.inserted :
                   /\ kb_entries[first_new + j].row_hash \notin EntryHashes(old)
                   /\ load.texts[j] = EntryText(kb_entries[first_new + j])
                   /\ kb_entries[first_new + j].embedding = load.vectors[j]

\* The edited workbook was synced over the first one: the edited row is one
\* deletion and one insertion, a second row is deleted, a third one is kept.
C11_Witness ==
    /\ SyncCommitted
    /\ load.path = "edited.xlsx"
    /\ load.prev_path = "a.xlsx"
    /\ load.deleted = 2
    /\ load.inserted = 1
    /\ Len(kb_entries) = 2
    /\ \E i \in 1..Len(load.before.kb_entries) : kb_entries[1] = load.before.kb_entries[i]

\* The file the last load was pointed at does not exist, or has no sheet.
UnreadableFile == ~FileAt(load.path).exists \/ FileAt(load.path).sheets = <<>>

\* C13: load_from_excel on a path that does not exist, or on a workbook with no
\* sheets, returns normally and changes nothing: the entries, the registry and
\* its indexes are as before the call, and no embedding call is made.
C13_UnreadableIsNoOp ==
    (load.n > 0 /\ UnreadableFile) =>
        /\ ~load.raised
        /\ ~load.read
        /\ Store = load.before
        /\ load.deleted = 0
        /\ load.inserted = 0
        /\ load.embed_calls = 0

\* A store that holds entries and a registry was pointed at the workbook
\* without sheets.
C13_Witness ==
    /\ load.n >= 2
    /\ load.path = "nosheets.xlsx"
    /\ kb_entries # <<>>
    /\ property_registry # <<>>
    /\ registry_by_id # <<>>

\* C12: a turn that runs while the KB is reloaded reads the stored entries and
\* the registry record of its property from one and the same state of the
\* store: the state before a load or the state after it, never a state in
\* between and never the registry of one with the entries of the other.
C12_ReadersSeeOneState ==
    \A w \in Workers :
        LET t == turns[w] IN
        t.pc = "chat" =>
            \E i \in 1..Len(load.history) :
                /\ t.entries = load.history[i].kb_entries
                /\ t.prompt[3].data[2]
                       = DictGet(load.history[i].property_registry,
                                 t.booking.property_id, <<>>)

(***************************************************************************)
(* Properties of the read functions of the KB store.                       *)
(***************************************************************************)
\* None and the empty text count as absent.
Absent(text) == text = NoneSeq \/ text = <<>>

\* The text without the blanks around it, in lower case.
Normalized(text) == Lower(Strip(text))

\* C14: _matches_property(unit, hint) is true exactly when the unit is absent,
\* or the unit trimmed and lower-cased is a wildcard marker, or the hint is
\* present and equals the unit once both are trimmed and lower-cased.
C14_MatchesProperty ==
    kb_call.op = "_matches_property" =>
        (kb_call.matches <=>
            \/ Absent(kb_call.unit_cell)
            \/ Normalized(kb_call.unit_cell) \in WildcardUnits
            \/ /\ ~Absent(kb_call.property_hint)
               /\ Normalized(kb_call.unit_cell) = Normalized(kb_call.property_hint))

\* A specific unit was tried against a missing hint and did not match.
C14_Witness ==
    /\ kb_call.op = "_matches_property"
    /\ kb_call.unit_cell = <<" ","p","1","\t">>
    /\ kb_call.property_hint = NoneSeq
    /\ ~kb_call.matches

\* A retrieve call that got its query vector and returned.
Retrieval == kb_call.op = "retrieve" /\ ~kb_call.raised /\ kb_call.entries # <<>>

\* The place in the table of the entry a result was made from (the answers of
\* the entries of one table differ).
PositionOf(item) ==
    CHOOSE i \in 1..Len(kb_call.entries) :
        /\ kb_call.entries[i].answer = item.answer
        /\ kb_call.entries[i].unit = item.unit

\* The similarity of the query of the call to the entry at place i.
SimilarityAt(i) == CosineSimilarity(kb_call.query_vec, kb_call.entries[i].embedding)

\* The entry at place i comes before the one at place k: its score is higher,
\* or the scores are equal and it was loaded earlier.
RanksBefore(i, k) ==
    \/ ScoreLess(SimilarityAt(k), SimilarityAt(i))
    \/ ~ScoreLess(SimilarityAt(i), SimilarityAt(k)) /\ i < k

\* C15: retrieve returns the top_k best of the entries that pass the property
\* filter (all of them when they are fewer), by non-increasing score, entries
\* of equal score in the order they were loaded.
C15_TopKStableOrder ==
    Retrieval =>
        LET res == kb_call.result
            limit == IF kb_call.top_k = 0 THEN 6 ELSE kb_call.top_k
            passing == {i \in 1..Len(kb_call.entries) :
                           MatchesProperty(kb_call.entries[i].unit,
                                           kb_call.property_hint)}
            returned == {PositionOf(res[j]) : j \in 1..Len(res)}
        IN  /\ Len(res) <= limit
            /\ Len(res) = Min(limit, Cardinality(passing))
            /\ returned \subseteq passing
            /\ \A j \in 1..Len(res) : res[j].score = SimilarityAt(PositionOf(res[j]))
            /\ \A j, k \in 1..Len(res) :
                   j < k => RanksBefore(PositionOf(res[j]), PositionOf(res[k]))
            /\ \A i \in returned : \A k \in passing \ returned : RanksBefore(i, k)

\* Three entries pass the filter with scores 0.8, 0.6, 0.8 and top_k is 2: the
\* first and the third entry are returned, in that order.
C15_Witness ==
    /\ Retrieval
    /\ kb_call.top_k = 2
    /\ Len(kb_call.entries) = 3
    /\ Len(kb_call.result) = 2
    /\ kb_call.result[1].score = [num |-> 4, den2 |-> 25]
    /\ kb_call.result[2].score = [num |-> 4, den2 |-> 25]
    /\ PositionOf(kb_call.result[1]) = 1
    /\ PositionOf(kb_call.result[2]) = 3
    /\ MatchesProperty(kb_call.entries[2].unit, kb_call.property_hint)
    /\ SimilarityAt(2) = [num |-> 3, den2 |-> 25]

\* A retrieve call changes no stored record and no registry field.
RetrieveReadsOnly == [][kb_call' # kb_call => UNCHANGED <<kbVars, dbVars>>]_vars

\* C16 as stated: every retrieve call is read-only and makes exactly one
\* embedding-provider call, on an empty store too.
C16_OneEmbeddingCall ==
    /\ [](kb_call.op = "retrieve" => kb_call.embed_calls = 1)
    /\ RetrieveReadsOnly

\* C16 amended: every retrieve call is read-only; it makes exactly one
\* embedding-provider call when the store holds at least one entry, also when
\* no entry passes the property filter, and none when the store is empty.
C16_ReadOnlyRetrieve ==
    /\ [](kb_call.op = "retrieve" =>
             kb_call.embed_calls = (IF kb_call.entries = <<>> THEN 0 ELSE 1))
    /\ RetrieveReadsOnly

\* A retrieve call on a store none of whose entries passes the property filter
\* has made its one embedding call and returned nothing.
C16_Witness ==
    /\ Retrieval
    /\ kb_call.result = <<>>
    /\ kb_call.embed_calls = 1
    /\ kb_entries = kb_call.entries

\* The vector is empty or all its components are zero.
Degenerate(v) == v = <<>> \/ \A i \in 1..Len(v) : v[i] = 0

\* C17: when the query vector or the stored vector is empty or has zero norm,
\* the score of the entry is exactly 0.0 and the call returns normally.
C17_DegenerateSimilarityIsZero ==
    Retrieval =>
        \A j \in 1..Len(kb_call.result) :
            (\/ Degenerate(kb_call.query_vec)
             \/ Degenerate(kb_call.entries[PositionOf(kb_call.result[j])].embedding))
                => kb_call.result[j].score = [num |-> 0, den2 |-> 1]

\* One call returned an entry stored with a zero vector and an entry stored
\* with an empty vector, both with score 0.0, for a query of non-zero norm.
C17_Witness ==
    /\ Retrieval
    /\ ~Degenerate(kb_call.query_vec)
    /\ \E j, k \in 1..Len(kb_call.result) :
          /\ kb_call.entries[PositionOf(kb_call.result[j])].embedding = <<0, 0>>
          /\ kb_call.entries[PositionOf(kb_call.result[k])].embedding = <<>>
          /\ kb_call.result[j].score = [num |-> 0, den2 |-> 1]
          /\ kb_call.result[k].score = [num |-> 0, den2 |-> 1]

(***************************************************************************)
(* Properties of the rows read from the sheet.                             *)
(***************************************************************************)
\* The cell holds a character that is not a blank.
HasText(cell) == cell # NoneSeq /\ \E k \in 1..Len(cell) : ~IsSpace(cell[k])

\* The cell of the row under the resolved answer column (none when no column
\* was resolved or the row is shorter).
AnswerCell(row, idx) ==
    IF ~DictHas(idx, "risposta") \/ DictGet(idx, "risposta", 0) >= Len(row)
    THEN NoneSeq
    ELSE row[DictGet(idx, "risposta", 0) + 1]

\* The data rows of the KB sheet of the file last loaded, and its header index.
LoadedDataRows == DataRows(KbSheet(FileAt(load.path)))
LoadedHeaderIndex == BuildHeaderIndex(ReadHeaders(KbSheet(FileAt(load.path))))

\* The data rows of that sheet whose answer cell holds text.
AnsweredRows ==
    {k \in 1..Len(LoadedDataRows) : HasText(AnswerCell(LoadedDataRows[k], LoadedHeaderIndex))}

\* C21: every stored KB entry has a non-empty answer; the rows a load hashes and
\* syncs are exactly the sheet rows whose resolved answer cell holds text, so a
\* row whose answer is missing, empty or blank is never hashed and never
\* inserted.
C21_AnswerRequired ==
    /\ \A i \in 1..Len(kb_entries) : HasText(kb_entries[i].answer)
    /\ (load.n > 0 /\ load.read) =>
          /\ Len(ValidRows(load.path)) = Cardinality(AnsweredRows)
          /\ \A j \in 1..Len(load.rows) :
                 /\ HasText(DictGet(load.rows[j], "risposta", NoneSeq))
                 /\ \E k \in AnsweredRows :
                        DictGet(load.rows[j], "risposta", NoneSeq)
                            = Strip(AnswerCell(LoadedDataRows[k], LoadedHeaderIndex))
          /\ load.inserted <= Cardinality(AnsweredRows)
          /\ \A j \in 1..Len(load.texts) : DictHas(load.texts[j], "risposta")

\* The edited workbook, which holds a row with a blank answer and an empty row
\* beside two answered rows, was synced: two entries are stored.
C21_Witness ==
    /\ load.n > 0 /\ load.read /\ ~load.raised
    /\ load.path = "edited.xlsx"
    /\ Len(LoadedDataRows) = 4
    /\ Cardinality(AnsweredRows) = 2
    /\ Len(kb_entries) = 2
    /\ load.inserted >= 1

(***************************************************************************)
(* Properties of _hash_row and resolve_property_name.                      *)
(***************************************************************************)
\* The field map of a row dict: its key/value pairs, whatever their order.
FieldMap(row) == {row[i] : i \in 1..Len(row)}

\* Two _hash_row calls were made one after the other.
TwoHashes == kb_call.op = "_hash_row" /\ kb_call.prev_row # NoneSeq

\* C22: two _hash_row calls on row dicts with the same key/value pairs return
\* the same hash, whatever the insertion order of either dict, whatever was
\* called in between and whatever the store holds; and no _hash_row call
\* changes the store.
C22_HashOrderIndependent ==
    /\ [](TwoHashes =>
             (FieldMap(kb_call.row) = FieldMap(kb_call.prev_row)
                  => kb_call.hash = kb_call.prev_hash))
    /\ [][kb_call'.op = "_hash_row" => UNCHANGED <<kbVars, dbVars>>]_vars

\* The same three fields were hashed in two different insertion orders, the
\* second one not sorted by key, and the two hashes are equal.
C22_Witness ==
    /\ TwoHashes
    /\ Len(kb_call.row) = 3
    /\ kb_call.row # kb_call.prev_row
    /\ FieldMap(kb_call.row) = FieldMap(kb_call.prev_row)
    /\ kb_call.row[1][1] = "risposta"
    /\ kb_call.hash = kb_call.prev_hash
    /\ registry_rows # <<>>

\* The record an index holds under a key.
RecordUnder(index, key) == index[CHOOSE i \in 1..Len(index) : index[i][1] = key][2]

Indexed(index, key) == \E i \in 1..Len(index) : index[i][1] = key

\* The name a record carries: its value under the registry's key field.
NameOfRecord(record) ==
    IF \E i \in 1..Len(record) : record[i][1] = registry_key_field
    THEN RecordUnder(record, registry_key_field)
    ELSE NoneSeq

\* What resolve_property_name has to return when the lookups are made with
\* the key `key` for the identifier `id`.
ResolvesWith(id, key) ==
    IF Absent(id) \/ \A k \in 1..Len(id) : IsSpace(id[k])
    THEN kb_call.name = NoneSeq /\ kb_call.record = NoneSeq
    ELSE IF Indexed(registry_by_id, key)
    THEN /\ kb_call.record = RecordUnder(registry_by_id, key)
         /\ \E i \in 1..Len(registry_rows) : registry_rows[i] = kb_call.record
         /\ kb_call.name = (IF Absent(NameOfRecord(kb_call.record))
                            THEN key ELSE NameOfRecord(kb_call.record))
    ELSE IF Indexed(registry_by_name, key)
    THEN /\ kb_call.record = RecordUnder(registry_by_name, key)
         /\ \E i \in 1..Len(registry_rows) : registry_rows[i] = kb_call.record
         /\ NameOfRecord(kb_call.record) = key
         /\ kb_call.name = key
    ELSE kb_call.name = id /\ kb_call.record = NoneSeq

\* C23 as stated: the lookups are made with the identifier as it was passed,
\* and an identifier found in neither index comes back unchanged as the name.
C23_ResolveUnchangedId ==
    kb_call.op = "resolve_property_name" =>
        ResolvesWith(kb_call.property_id, kb_call.property_id)

\* C23 amended: resolve_property_name trims the identifier first; it returns
\* the record the id index holds under the trimmed identifier when there is
\* one, otherwise the record whose name equals the trimmed identifier when
\* there is one, otherwise the trimmed identifier as the name with no record;
\* an absent or blank identifier yields (none, none).
C23_ResolveTrimmedId ==
    kb_call.op = "resolve_property_name" =>
        ResolvesWith(IF Absent(kb_call.property_id) THEN kb_call.property_id
                     ELSE Strip(kb_call.property_id),
                     IF Absent(kb_call.property_id) THEN kb_call.property_id
                     ELSE Strip(kb_call.property_id))

\* An identifier with blanks around it, which is the id of one property and
\* the name of another, resolved to the record indexed under the id.
C23_Witness ==
    /\ kb_call.op = "resolve_property_name"
    /\ kb_call.property_id = <<" ","P","1"," ">>
    /\ Indexed(registry_by_id, PropertyP1)
    /\ Indexed(registry_by_name, PropertyP1)
    /\ kb_call.record = RecordUnder(registry_by_id, PropertyP1)
    /\ kb_call.record # RecordUnder(registry_by_name, PropertyP1)
    /\ kb_call.name = <<"B","l","u">>

(***************************************************************************)
(* Properties of the prompt and of the order of a turn's stages.           *)
(***************************************************************************)
\* The prompt of the turn has been composed and is still held.
Composed(t) == t.prompt # <<>>

\* The history part of a prompt: its user and assistant messages but the last.
HistoryPart(prompt) ==
    {k \in 1..(Len(prompt) - 1) : prompt[k].role \in {"user", "assistant"}}

\* C24: in every prompt composed for the answer, under every interleaving of
\* two turns, the current user message is the last message and appears nowhere
\* else: the history part is made of messages of the phone's transcript
\* stored before the turn's own inbound message, oldest first, and those
\* only.
C24_CurrentMessageOnce ==
    \A w \in Workers :
        LET t == turns[w] IN
        Composed(t) =>
            /\ t.prompt[Len(t.prompt)]
                   = [role |-> "user", kind |-> "current", text |-> t.text, data |-> <<>>]
            /\ Cardinality(HistoryPart(t.prompt)) = Len(t.history_ids)
            /\ \A k \in 1..Len(t.history_ids) :
                   /\ t.history_ids[k] \in 1..Len(messages)
                   /\ messages[t.history_ids[k]].session = t.phone
                   /\ t.history_ids[k] < t.user_msg_id
                   /\ k > 1 => t.history_ids[k - 1] < t.history_ids[k]

\* The place of each step in the order of the stages: inbound-persist (1, 2),
\* booking lookup (3, 4), KB retrieval (5, 6), answer chat call (7, 8), the
\* handoff that takes the place of an answer (9, 10), reply-persist (11),
\* memory refresh (12 to 14), the end of the turn (15).
StepOrder ==
    << "create_session", "store_user", "booking", "persist_booking", "retrieve",
       "embed", "compose", "chat", "handoff", "notify", "store", "mem_read",
       "mem_chat", "mem_write", "ended" >>

PlaceOf(pc) ==
    LET name == IF pc \in {"returned", "raised"} THEN "ended" ELSE pc
    IN  CHOOSE k \in 1..Len(StepOrder) : StepOrder[k] = name

\* A turn in progress only moves forward in the order of the stages.
StagesInOrder ==
    \A w \in Workers :
        (Active(w) /\ turns'[w].pc # turns[w].pc)
            => PlaceOf(turns'[w].pc) > PlaceOf(turns[w].pc)

\* Each external call is made at most once and only where its stage allows.
StagesOnce ==
    \A w \in Workers :
        LET t == turns[w] IN
        /\ t.booking_calls <= 1 /\ t.embed_calls <= 1 /\ t.chat_calls <= 1
        /\ t.summary_calls <= 1
        /\ (t.pc # "idle" /\ PlaceOf(t.pc) > 3 /\ t.failed # "session")
               => t.booking_calls = 1
        /\ t.embed_calls = 1 => (t.booking_calls = 1 /\ t.booking.found)
        /\ (t.chat_calls = 1) =>
               /\ t.booking.found
               /\ t.retrieved # <<>>
               /\ ~BelowEightTenths(t.retrieved[1].score)
        /\ t.summary_calls = 1 => (t.chat_calls = 1 /\ t.reply_msg_id # 0)
        /\ t.pc = "returned" =>
               /\ t.path \in {"NO_BOOKING", "KB_INSUFFICIENT", "ANSWERED", "HANDOFF"}
               /\ t.path = "NO_BOOKING" <=> ~t.booking.found
               /\ t.path = "KB_INSUFFICIENT" <=> (t.booking.found /\ t.chat_calls = 0)
               /\ t.path = "HANDOFF" <=> (t.chat_calls = 1 /\ HasSentinel(t.raw))
               /\ t.path = "ANSWERED" <=> (t.chat_calls = 1 /\ ~HasSentinel(t.raw))

\* A turn in progress ends: it returns, or a collaborator's failure is raised.
TurnsEnd ==
    \A w \in Workers :
        Active(w) ~>
            \/ turns[w].pc = "returned"
            \/ /\ turns[w].pc = "raised"
               /\ turns[w].failed \in {"booking", "embedding", "chat", "memory"}

\* C25: a turn goes through its stages only in the order inbound-persist,
\* booking lookup, KB retrieval, answer chat call, reply-persist, memory
\* refresh and repeats none: one booking lookup, at most one query embedding
\* and only after a booking resolved, at most one answer chat call and only
\* after KB_SUFFICIENT; and every turn whose collaborators respond ends in
\* exactly one of NO_BOOKING, KB_INSUFFICIENT, ANSWERED, HANDOFF.
C25_StagesInOrderOnce ==
    /\ []StagesOnce
    /\ [][StagesInOrder]_vars
    /\ TurnsEnd

\* A turn has gone through every stage and returned ANSWERED, after an
\* earlier turn of the same phone.
C25_Witness ==
    \E w \in Workers :
        /\ turns[w].pc = "returned"
        /\ turns[w].path = "ANSWERED"
        /\ turns[w].booking_calls = 1 /\ turns[w].embed_calls = 1
        /\ turns[w].chat_calls = 1 /\ turns[w].summary_calls = 1
        /\ turns[w].user_msg_id > 1
        /\ turns[w].reply_msg_id > turns[w].user_msg_id

(***************************************************************************)
(* Properties of the booking fields cached on the session.                 *)
(***************************************************************************)
\* The three booking fields of a session row or of a BookingContext.
BookingFields(r) == <<r.booking_id, r.property_id, r.guest_last_name>>

\* The turn has resolved a booking and written it to the session.
HasCached(t) ==
    /\ t.booking.found
    /\ t.pc \notin {"idle", "create_session", "store_user", "booking", "persist_booking"}

\* The cached fields of a phone change only in the step in which a turn of
\* that phone caches its resolved booking, and that step caches all three.
CachedByWriterOnly ==
    \A p \in Phones :
        BookingFields(sessions'[p]) # BookingFields(sessions[p]) =>
            \E w \in Workers :
                /\ turns[w].phone = p
                /\ turns[w].pc = "persist_booking"
                /\ turns'[w].pc # "persist_booking"
                /\ turns[w].booking.found

\* The step in which a turn caches its booking leaves the three fields of its
\* booking on the session.
WriterCachesAll ==
    \A w \in Workers :
        (turns[w].pc = "persist_booking" /\ turns'[w].pc # "persist_booking") =>
            BookingFields(sessions'[turns[w].phone]) = BookingFields(turns[w].booking)

Snapshot(prompt) == prompt[3].data[2]

\* The record a property id resolves to: the one the id index holds under it,
\* else the one the name index holds under it, else none (the empty record).
ResolvedRecord(property_id) ==
    IF Indexed(registry_by_id, property_id)
    THEN RecordUnder(registry_by_id, property_id)
    ELSE IF Indexed(registry_by_name, property_id)
    THEN RecordUnder(registry_by_name, property_id)
    ELSE <<>>

\* C27: the registry snapshot in the prompt of a turn is the record the
\* booking's property id resolves to through the id index, falling back to
\* the name index; a property id that resolves to no record gives an empty
\* snapshot, and the turn goes on to the chat call all the same.
C27_SnapshotResolvedById ==
    \A w \in Workers :
        LET t == turns[w] IN
        Composed(t) =>
            /\ Snapshot(t.prompt) = ResolvedRecord(t.booking.property_id)
            /\ t.pc = "chat" \/ t.chat_calls = 1

\* The unit puts the passage in the scope of the property: it is absent, it is
\* a wildcard, or it names the property (trimmed, in any letter case).
InScope(unit, property_id) ==
    \/ Absent(unit)
    \/ Normalized(unit) \in WildcardUnits
    \/ ~Absent(property_id) /\ Normalized(unit) = Normalized(property_id)

\* The block of a prompt that renders the retrieved passages.
KbBlock(prompt) == prompt[Len(prompt) - 1]

\* C28: every passage retrieve returns to a turn, and so every passage in the
\* prompt of the turn, has a unit that is absent, a wildcard or equal
\* (trimmed, case-insensitive) to the booking's property id; the best score
\* the sufficiency decision uses is the score of such a passage.
C28_PassagesInScope ==
    \A w \in Workers :
        LET t == turns[w] IN
        /\ \A j \in 1..Len(t.retrieved) :
               InScope(t.retrieved[j].unit, t.booking.property_id)
        /\ t.retrieved # <<>> =>
               /\ t.booking.found
               /\ t.best_score = t.retrieved[1].score
               /\ \A j \in 1..Len(t.retrieved) :
                      ~ScoreLess(t.best_score, t.retrieved[j].score)
        /\ t.retrieved = <<>> => t.best_score = [num |-> 0, den2 |-> 1]
        /\ Composed(t) =>
               /\ KbBlock(t.prompt).kind = "kb"
               /\ KbBlock(t.prompt).data = t.retrieved
               /\ \A k \in 1..Len(t.prompt) :
                      t.prompt[k].kind = "kb" => k = Len(t.prompt) - 1
        /\ t.pc = "returned" => t.result.kb_best_score = t.best_score

\* A prompt was composed for a guest of P1 from a table that also holds an
\* entry of P2: the wildcard passage and the passage without unit are in the
\* prompt, the entry of P2 is not.
C28_Witness ==
    \E w \in Workers :
        LET t == turns[w] IN
        /\ Composed(t)
        /\ t.booking.property_id = PropertyP1
        /\ \E i \in 1..Len(t.entries) : t.entries[i].unit = PropertyP2
        /\ Len(t.retrieved) = 2
        /\ \E j \in 1..2 : Normalized(t.retrieved[j].unit) \in WildcardUnits
        /\ \E j \in 1..2 : Absent(t.retrieved[j].unit)

\* C29: a returned turn has status "handoff" exactly when it created a
\* HandoffRequest and status "ok" exactly when it created none; status "ok"
\* goes only with the model's own answer as the returned message.
C29_StatusIffHandoff ==
    \A w \in Workers :
        LET t == turns[w] IN
        t.pc = "returned" =>
            /\ t.result.status \in {"ok", "handoff"}
            /\ t.result.status = "handoff" <=> t.handoff_ids # <<>>
            /\ t.result.status = "ok" =>
                   /\ ChatAnswered(t)
                   /\ ~HasSentinel(t.raw)
                   /\ t.result.assistant_message
                          # HandoffMessage(t.booking.guest_last_name)

HandoffReasons == {"no_booking", "no_kb_answer", "model_handoff"}

\* A step appends at most one message, and the message is the user message of
\* a turn that has stored none yet or the reply of a turn that has stored its
\* user message and no reply yet; the turn notes the row it wrote.
OneMessagePerStep ==
    \/ messages' = messages
    \/ /\ Len(messages') = Len(messages) + 1
       /\ SubSeq(messages', 1, Len(messages)) = messages
       /\ \E w \in Workers :
              LET t == turns[w]
                  u == turns'[w]
                  m == messages'[Len(messages')]
              IN  /\ \A v \in Workers \ {w} : turns'[v] = turns[v]
                  /\ \/ /\ t.user_msg_id = 0 /\ t.reply_msg_id = 0
                        /\ u.user_msg_id = Len(messages') /\ u.reply_msg_id = 0
                        /\ IsUserMessage(m, u)
                     \/ /\ t.user_msg_id # 0 /\ t.reply_msg_id = 0
                        /\ u.user_msg_id = t.user_msg_id
                        /\ u.reply_msg_id = Len(messages')
                        /\ IsReply(m, t, t.assistant)
                        /\ t.reason # "" => Len(t.handoff_ids) = 1

\* The rows a turn noted change only by such a step or when the worker
\* begins its next turn.
RowsNotedOnce ==
    \A w \in Workers :
        LET t == turns[w]
            u == turns'[w]
        IN  /\ u.user_msg_id # t.user_msg_id =>
                   \/ u.user_msg_id = Len(messages') /\ messages' # messages
                   \/ u.user_msg_id = 0 /\ ~Active(w)
            /\ u.reply_msg_id # t.reply_msg_id =>
                   \/ u.reply_msg_id = Len(messages') /\ messages' # messages
                   \/ u.reply_msg_id = 0 /\ ~Active(w)
            /\ u.handoff_ids # t.handoff_ids =>
                   \/ u.handoff_ids = <<Len(handoffs')>> /\ handoffs' # handoffs
                   \/ u.handoff_ids = <<>> /\ ~Active(w)

\* A step creates at most one HandoffRequest, for a turn that has created
\* none and has not stored its reply.
OneHandoffPerStep ==
    \/ handoffs' = handoffs
    \/ /\ Len(handoffs') = Len(handoffs) + 1
       /\ SubSeq(handoffs', 1, Len(handoffs)) = handoffs
       /\ messages' = messages
       /\ \E w \in Workers :
              /\ turns[w].handoff_ids = <<>>
              /\ turns[w].reply_msg_id = 0
              /\ turns'[w].handoff_ids = <<Len(handoffs')>>
              /\ turns'[w].reply_msg_id = 0

\* What the HandoffRequest of a turn holds.
HandoffOfTurn(t) ==
    Len(t.handoff_ids) <= 1 /\
    \A k \in 1..Len(t.handoff_ids) :
        LET h == handoffs[t.handoff_ids[k]] IN
        /\ h.reason \in HandoffReasons
        /\ h.reason = t.reason
        /\ h.phone_e164 = t.phone
        /\ h.user_message = t.text
        /\ h.reason = "no_booking" =>
               /\ ~t.booking.found
               /\ h.guest_last_name = NoneSeq
               /\ h.property_id = NoneSeq
               /\ h.booking_id = NoneId
        /\ h.reason # "no_booking" =>
               /\ t.booking.found
               /\ h.guest_last_name = t.booking.guest_last_name
               /\ h.property_id = t.booking.property_id
               /\ h.booking_id = t.booking.booking_id

\* What a returned turn has left in the two tables.
ReturnedTurn(t) ==
    /\ t.user_msg_id \in 1..Len(messages)
    /\ IsUserMessage(messages[t.user_msg_id], t)
    /\ t.user_msg_id < t.reply_msg_id
    /\ StoredReply(t, t.result.assistant_message)
    /\ t.reason = "" <=> t.handoff_ids = <<>>

\* C30: every turn that returns has appended exactly one user message and
\* then exactly one assistant message to the transcript of its phone and has
\* created at most one HandoffRequest, whose reason is no_booking,
\* no_kb_answer or model_handoff; the HandoffRequest is persisted before the
\* acknowledgement is stored; a no_booking record carries no guest name,
\* property id or booking id, the other two carry those of the resolved
\* booking.
C30_TurnRecords ==
    /\ [][OneMessagePerStep /\ OneHandoffPerStep /\ RowsNotedOnce]_vars
    /\ [](\A w \in Workers :
             /\ HandoffOfTurn(turns[w])
             /\ turns[w].pc = "returned" => ReturnedTurn(turns[w]))
    /\ [](\A i \in 1..Len(handoffs) : handoffs[i].reason \in HandoffReasons)

\* A turn with a model handoff has returned after a turn without booking:
\* two HandoffRequests, one without and one with booking values, and four
\* messages.
C30_Witness ==
    \E w \in Workers :
        LET t == turns[w] IN
        /\ t.pc = "returned"
        /\ t.reason = "model_handoff"
        /\ Len(t.handoff_ids) = 1
        /\ Len(handoffs) = 2
        /\ handoffs[1].reason = "no_booking"
        /\ handoffs[2].booking_id = t.booking.booking_id
        /\ Len(messages) = 4
        /\ t.reply_msg_id = 4

\* The last load called the embedding provider for its missing rows and the
\* call failed.
EmbeddingFailedInSync ==
    /\ load.n > 0
    /\ load.raised
    /\ load.embed_calls = 1
    /\ load.texts # <<>>
    /\ load.vectors = <<>>

\* The in-memory registry of a store: its rows, its indexes, its name field.
RegistryOf(store) ==
    <<store.registry_rows, store.property_registry, store.registry_by_id,
      store.registry_by_name, store.registry_key_field>>

\* C31: a load whose embedding call fails during the sync raises and commits
\* nothing: the stored entries are those of before the load, none deleted and
\* none inserted, and the in-memory registry is that of before the load too.
C31_FailedLoadCommitsNothing ==
    EmbeddingFailedInSync =>
        /\ kb_entries = load.before.kb_entries
        /\ load.deleted = 0
        /\ load.inserted = 0
        /\ RegistryOf(Store) = RegistryOf(load.before)

====
